---- MODULE Spec2Model ----
(***************************************************************************)
(* fmatrix: the two-tier Last.fm response cache (lastfm_client.py,         *)
(* database.py) and the reaction-driven pagination (commands.py, bot.py).  *)
(*                                                                         *)
(* Conventions of the model                                                *)
(*  - time is an integer number of seconds; time.monotonic() and           *)
(*    datetime.now(timezone.utc) advance together and are both read as     *)
(*    `now`;                                                               *)
(*  - a params dict is a sequence of <<key, value>> pairs with distinct    *)
(*    keys, in insertion order; values are strings (an int argument is     *)
(*    the string f"{value}" formats it to);                                *)
(*  - a response payload is a record [body, at]: `body` is the shape of    *)
(*    the JSON document and `at` the time the server produced it;          *)
(*  - Python's None is the record None below.                              *)
(***************************************************************************)
EXTENDS Integers, Sequences, FiniteSets, TLC

VARIABLES
    now,            \* the clock
    _cache,         \* LastfmClient._cache: key -> [cached_at, data]
    _cache_ttls,    \* LastfmClient._cache_ttls: method -> seconds
    cache_db,       \* LastfmClient.cache_db is set (TRUE) or None (FALSE)
    lastfm_cache,   \* table lastfm_cache: cache_key -> [response_json, expires_at]
    last,           \* what the last cache operation did and returned
    paginations,    \* PaginationManager.paginations: event_id -> state
    nextEvent,      \* the event id the homeserver gives to the next message
    lastR,          \* what the last pagination operation did
    running,        \* the handler coroutines of the bot that have not ended,
                    \* or the last one that has: a sequence of frames
    room,           \* the messages of the room: event id -> what it shows
    stats_cache,    \* table stats_cache: lastfm_username -> cached_at
    auth_tokens,    \* table auth_tokens: matrix_user_id -> created_at
    calls,          \* the _request coroutines: caller -> where its call stands
    issued,         \* how many auth tokens Last.fm has issued
    auth_token,     \* table auth_tokens, column auth_token: matrix_user_id -> token
    user_mappings,  \* table user_mappings: matrix_user_id ->
                    \* [lastfm_username, lastfm_session_key]
    paging          \* the locals of a get_all_top_* call: where its loop stands

cacheVars == <<now, _cache, _cache_ttls, cache_db, lastfm_cache, last>>

pageVars == <<paginations, nextEvent, lastR>>

stepVars == <<running, room>>

houseVars == <<stats_cache, auth_tokens>>

linkVars == <<issued, auth_token, user_mappings>>

vars == <<now, _cache, _cache_ttls, cache_db, lastfm_cache, last,
          paginations, nextEvent, lastR, running, room,
          stats_cache, auth_tokens, calls, issued, auth_token, user_mappings,
          paging>>

-----------------------------------------------------------------------------
(* Bounds *)

\* the clock stops advancing here
MaxTime == 600

\* the amounts of time that may pass between two operations
TickSteps == {300}

\* the number of messages the bot sends
MaxEvents == 3

\* the number of paginated messages the registry holds at a time
MaxSessions == 1

\* the number of parameters of a mapping given to _cache_key on its own
MaxParams == 3

-----------------------------------------------------------------------------
(* Values *)

None == [body |-> "None", at |-> 0]

\* shapes of a 200 response the network gives in the model: a listing with an
\* empty artist list, a listing with a list of artists
Bodies == {"empty", "list"}

\* what session.get can do: raise, answer a non-200 status, answer 200 with a body
Responses == {[kind |-> "raise", body |-> "None"], [kind |-> "status", body |-> "None"]}
             \cup {[kind |-> "ok", body |-> b] : b \in Bodies}

\* json.dumps / json.loads on a payload parsed from JSON
json_dumps(data) == <<"json", data>>

json_loads(text) == text[2]

-----------------------------------------------------------------------------
(* dicts as insertion-ordered sequences of pairs *)

Keys(d) == {d[i][1] : i \in DOMAIN d}

Has(d, k) == k \in Keys(d)

Get(d, k) == LET i == CHOOSE j \in DOMAIN d : d[j][1] = k IN d[i][2]

\* d[k] = v: replaces the value in place, or appends the pair
SetItem(d, k, v) ==
    IF Has(d, k) THEN [i \in DOMAIN d |-> IF d[i][1] = k THEN <<k, v>> ELSE d[i]]
                 ELSE Append(d, <<k, v>>)

\* the parameter names of the model in lexicographic (code point) order
KeyOrder ==
    <<"api_key", "api_sig", "format", "limit", "method", "period", "token", "user">>

\* (faulty variant) the pairs are taken in insertion order
unsorted_items(d) == d

\* sorted(params.items()): the keys are distinct, so the pairs sort by key
sorted_items(d) ==
    LET ks == SelectSeq(KeyOrder, LAMBDA k : Has(d, k))
    IN  [i \in DOMAIN ks |-> <<ks[i], Get(d, ks[i])>>]

RECURSIVE join(_, _)
join(sep, parts) ==
    IF parts = <<>> THEN ""
    ELSE IF Len(parts) = 1 THEN parts[1]
    ELSE parts[1] \o sep \o join(sep, Tail(parts))

-----------------------------------------------------------------------------
(* LastfmClient: key derivation and TTL policy *)

api_key == "K"

\* (faulty variant) the response-format field is kept in the key
SkippedFieldsNoFormat == {"api_key"}

\* the fields _cache_key leaves out
SkippedFields == {"api_key", "format"}

\* (faulty variant) a pair with an empty value is left out of the key
_cache_key_omitting_empty(params) ==
    LET kept  == SelectSeq(sorted_items(params),
                           LAMBDA kv : kv[1] \notin SkippedFields /\ kv[2] # "")
        parts == [i \in DOMAIN kept |-> kept[i][1] \o "=" \o kept[i][2]]
    IN  join("|", parts)

_cache_key(params) ==
    LET kept  == SelectSeq(sorted_items(params), LAMBDA kv : kv[1] \notin SkippedFields)
        parts == [i \in DOMAIN kept |-> kept[i][1] \o "=" \o kept[i][2]]
    IN  join("|", parts)

CodeTtls ==
    [m \in {"user.gettopartists", "user.gettoptracks", "user.gettopalbums",
            "user.getinfo", "user.getrecenttracks", "artist.search",
            "track.search", "album.search", "artist.getinfo",
            "artist.gettopalbums", "track.getinfo", "user.getlovedtracks"} |->
        CASE m \in {"user.gettopartists", "user.gettoptracks", "user.gettopalbums"} -> 600
          [] m \in {"user.getinfo", "artist.search", "track.search", "album.search",
                    "user.getlovedtracks"} -> 300
          [] m = "user.getrecenttracks" -> 30
          [] OTHER -> 3600]

_default_cache_ttl == 120

\* (faulty variant) every operation gets the default
_cache_ttl_default_only(params) == _default_cache_ttl

_cache_ttl(params) ==
    LET method == IF Has(params, "method") THEN Get(params, "method") ELSE "None"
    IN  IF method \in DOMAIN _cache_ttls THEN _cache_ttls[method]
        ELSE _default_cache_ttl

-----------------------------------------------------------------------------
(* Database: table lastfm_cache *)

Drop(f, k) == [x \in DOMAIN f \ {k} |-> f[x]]

Put(f, k, v) == [x \in DOMAIN f \cup {k} |-> IF x = k THEN v ELSE f[x]]

\* datetime.isoformat / datetime.fromisoformat on an aware UTC datetime
isoformat(t) == <<"iso", t>>

fromisoformat(text) == text[2]

\* (faulty variant) the expiry comparison the wrong way round
RowExpiredInverted(expires_at) == now <= expires_at

\* datetime.now(timezone.utc) >= expires_at
RowExpired(expires_at) == now >= expires_at

\* get_lastfm_cache(cache_key): the value returned (hit, response_json) and the
\* table it leaves; rows are written by set_lastfm_cache alone, so expires_at
\* always parses
get_lastfm_cache(cache_key) ==
    IF cache_key \notin DOMAIN lastfm_cache
    THEN [hit |-> FALSE, response_json |-> json_dumps(None), deleted |-> FALSE,
          table |-> lastfm_cache]
    ELSE LET row == lastfm_cache[cache_key]
         IN  IF RowExpired(fromisoformat(row.expires_at))
             THEN [hit |-> FALSE, response_json |-> json_dumps(None), deleted |-> TRUE,
                   table |-> Drop(lastfm_cache, cache_key)]
             ELSE [hit |-> TRUE, response_json |-> row.response_json, deleted |-> FALSE,
                   table |-> lastfm_cache]

\* (faulty variant) the TTL is not added
NewExpiresAtNoTtl(ttl_seconds) == now

\* expires_at = datetime.now(timezone.utc) + timedelta(seconds=ttl_seconds)
NewExpiresAt(ttl_seconds) == now + ttl_seconds

\* set_lastfm_cache(cache_key, response_json, ttl_seconds): INSERT OR REPLACE
set_lastfm_cache(table, cache_key, response_json, ttl_seconds) ==
    Put(table, cache_key,
        [response_json |-> response_json,
         expires_at |-> isoformat(NewExpiresAt(ttl_seconds))])

-----------------------------------------------------------------------------
(* LastfmClient._request *)

\* (faulty variant) the freshness comparison the wrong way round
MemoryFreshInverted(cached_at, ttl) == now - cached_at > ttl

\* time.monotonic() - cached_at < ttl
MemoryFresh(cached_at, ttl) == now - cached_at < ttl

\* self._cache[cache_key] = (time.monotonic(), cached_data) after a persistent hit
Promoted(cached_data) == [cached_at |-> now, data |-> cached_data]

\* (faulty variant) the response is cached whatever the TTL
CachesAlways(ttl) == TRUE

\* the `if ttl > 0` around the two cache writes after a 200 response
CachesResponse(ttl) == ttl > 0

\* (faulty variant) the memory tier is written after the persistent tier, so
\* a persistent write that raises leaves it unwritten
MemoryStoredAfterWrite(store, wrRaised) == store /\ ~wrRaised

\* self._cache[cache_key] = (time.monotonic(), data) comes before the
\* persistent write and outside its try
MemoryStored(store, wrRaised) == store

\* (faulty variant) the outcome of a failed call is kept in the memory tier
AfterFailureStoringNone(cache, cache_key) ==
    Put(cache, cache_key, [cached_at |-> now, data |-> None])

\* the memory tier after "return None": the two failure branches write nothing
AfterFailure(cache, cache_key) == cache

\* One call of _request, from the current state: the value returned, the tiers it
\* leaves, and what it did on the way.
\*   resp       what session.get does if the call gets that far
\*   rdRaises   cache_db.get_lastfm_cache raises (before it changes the table)
\*   wrRaises   cache_db.set_lastfm_cache raises (before it changes the table)
Request(params_in, resp, rdRaises, wrRaises) ==
    LET params    == SetItem(SetItem(params_in, "api_key", api_key), "format", "json")
        ttl       == _cache_ttl(params)
        cache_key == _cache_key(params)
        cached    == cache_key \in DOMAIN _cache
        memHit    == ttl > 0 /\ cached /\ MemoryFresh(_cache[cache_key].cached_at, ttl)
        \* a stale memory entry is popped
        cache1    == IF ttl > 0 /\ cached /\ ~memHit THEN Drop(_cache, cache_key) ELSE _cache
        dbAsked   == ttl > 0 /\ ~memHit /\ cache_db
        got       == get_lastfm_cache(cache_key)
        dbHit     == dbAsked /\ ~rdRaises /\ got.hit
        table1    == IF dbAsked /\ ~rdRaises THEN got.table ELSE lastfm_cache
        data      == [body |-> resp.body, at |-> now]
        base      == [params |-> params_in, key |-> cache_key, ttl |-> ttl]
    IN  IF memHit THEN
            base @@
            [ret |-> _cache[cache_key].data, src |-> "memory", net |-> 0,
             dbRead |-> 0, dbDel |-> 0, dbWrite |-> 0, resp |-> "none",
             rdRaised |-> FALSE, wrRaised |-> FALSE,
             cache |-> _cache, table |-> lastfm_cache]
        ELSE IF dbHit THEN
            base @@
            [ret |-> json_loads(got.response_json), src |-> "db", net |-> 0,
             dbRead |-> 1, dbDel |-> 0, dbWrite |-> 0, resp |-> "none",
             rdRaised |-> FALSE, wrRaised |-> FALSE,
             cache |-> Put(cache1, cache_key, Promoted(json_loads(got.response_json))),
             table |-> table1]
        ELSE
            LET dbRead == IF dbAsked THEN 1 ELSE 0
                dbDel  == IF dbAsked /\ ~rdRaises /\ got.deleted THEN 1 ELSE 0
                rdExc  == dbAsked /\ rdRaises
            IN  IF resp.kind = "ok" THEN
                    LET store == CachesResponse(ttl)
                        write == store /\ cache_db /\ ~wrRaises
                    IN  base @@
                        [ret |-> data, src |-> "network", net |-> 1,
                         dbRead |-> dbRead, dbDel |-> dbDel,
                         dbWrite |-> IF write THEN 1 ELSE 0, resp |-> resp.kind,
                         rdRaised |-> rdExc,
                         wrRaised |-> store /\ cache_db /\ wrRaises,
                         cache |-> IF MemoryStored(store, cache_db /\ wrRaises)
                                   THEN Put(cache1, cache_key, [cached_at |-> now, data |-> data])
                                   ELSE cache1,
                         table |-> IF write
                                   THEN set_lastfm_cache(table1, cache_key, json_dumps(data), ttl)
                                   ELSE table1]
                ELSE
                    base @@
                    [ret |-> None, src |-> "failed", net |-> 1,
                     dbRead |-> dbRead, dbDel |-> dbDel, dbWrite |-> 0, resp |-> resp.kind,
                     rdRaised |-> rdExc, wrRaised |-> FALSE,
                     cache |-> AfterFailure(cache1, cache_key), table |-> table1]

\* the fields of a Request outcome that `last` keeps
Trace(op, r, out) ==
    [op |-> op, params |-> r.params, key |-> r.key, ttl |-> r.ttl,
     ret |-> r.ret, src |-> r.src, net |-> r.net, dbRead |-> r.dbRead,
     dbDel |-> r.dbDel, dbWrite |-> r.dbWrite, resp |-> r.resp,
     rdRaised |-> r.rdRaised, wrRaised |-> r.wrRaised, out |-> out]

NoTrace(op) ==
    [op |-> op, params |-> <<>>, key |-> "", ttl |-> 0,
     ret |-> None, src |-> "none", net |-> 0, dbRead |-> 0,
     dbDel |-> 0, dbWrite |-> 0, resp |-> "none",
     rdRaised |-> FALSE, wrRaised |-> FALSE, out |-> <<>>]

-----------------------------------------------------------------------------
(* Pagination: PaginationManager, send_paginated_message, handle_reaction *)

\* reaction keys: the two navigation symbols (U+2B05, U+27A1) and another emoji
PrevKey == "<-"

NextKey == "->"

ReactionKeys == {PrevKey, NextKey, "+1"}

\* config.matrix_user_id and the users of the room
BotUser == "@bot"

Users == {"@alice", "@bob"}

\* the user whose commands the model follows; reactions come from every user
Requesters == {"@alice"}

RoomId == "!room"

\* what a pagination callback does for a page: it returns a text for the page
\* (the listing, or the "could not retrieve" line), or it raises
CallbackOutcomes == {"content", "raise"}

\* pagination.pages of a Discogs document: none, one page, two, three
PageCounts == 0..3

\* the page argument of a command: int(args[..]) if it is all digits, else 1;
\* from 0 to one more than the largest page count
PageArgs == 0..4

\* the text a pagination callback returns for a page
Produced(callback, page_num) == [callback |-> callback, page |-> page_num]

\* a text that is not a page: an error line, or nothing
NoContent == [callback |-> "", page |-> 0]

\* what an operation did: how often it called a pagination callback and with
\* which page, the event id (0: none) and the content of the message it sent,
\* whether it redacted the target, how many reactions it attached.
\* `nexts` counts a run of operations on one session: 0 after the command that
\* registered it at page 1, k after k owner "next" reactions that followed
\* one another on the message then rendered and were handled to the end
\* (up to MaxEvents of them), -1 after anything else
NoReaction(op) ==
    [op |-> op, sender |-> "", target |-> 0, key |-> "", called |-> 0,
     page_arg |-> 0, sent |-> 0, content |-> NoContent, redacted |-> FALSE,
     reactions |-> 0, nexts |-> -1]

\* the message that renders the session an operation worked on
SessionKey(l) == IF l.sent # 0 THEN l.sent ELSE l.target

\* PaginationManager.register
register(table, event_id, room_id, user_id, current_page, total_pages, callback) ==
    Put(table, event_id,
        [room_id |-> room_id, user_id |-> user_id, current_page |-> current_page,
         total_pages |-> total_pages, callback |-> callback,
         reaction_event_ids |-> <<>>])

\* (faulty variant) the page of the entry is left as it was
update_page_skipped(table, event_id, new_page) == table

\* PaginationManager.update_page
update_page(table, event_id, new_page) ==
    IF event_id \in DOMAIN table
    THEN [table EXCEPT ![event_id].current_page = new_page]
    ELSE table

\* (faulty variant) a reaction from anybody navigates
AnySender(sender, pagination) == TRUE

\* sender == pagination['user_id']
IsOriginalUser(sender, pagination) == sender = pagination.user_id

\* (faulty variant) "previous" is taken on any page
GoPrevUnbounded(reaction_key, current_page) == reaction_key = PrevKey

\* reaction_key == "previous" and current_page > 1
GoPrev(reaction_key, current_page) == reaction_key = PrevKey /\ current_page > 1

\* (faulty variant) "next" is taken on any page
GoNextUnbounded(reaction_key, current_page, total_pages) == reaction_key = NextKey

\* reaction_key == "next" and current_page < total_pages
GoNext(reaction_key, current_page, total_pages) ==
    reaction_key = NextKey /\ current_page < total_pages

\* send_paginated_message(room, message, client, user_id, current_page,
\* total_pages, callback), once send_message has returned nextEvent as the
\* event id.  `reactions` is how many of the two reaction sends return before
\* one raises (2: none raises); an exception goes to handle_command, which
\* sends the error text as one more message
send_paginated_message(did, user_id, current_page, total_pages, callback) ==
    IF total_pages > 1
    THEN \E reactions \in 0..2 :
            /\ Cardinality(DOMAIN paginations) < MaxSessions
            /\ paginations' = register(paginations, nextEvent, RoomId, user_id,
                                       current_page, total_pages, callback)
            /\ nextEvent' = nextEvent + (IF reactions < 2 THEN 2 ELSE 1)
            /\ lastR' = [did EXCEPT !.sent = nextEvent, !.reactions = reactions,
                                    !.content = Produced(callback, current_page),
                                    !.nexts = IF current_page = 1 THEN 0 ELSE -1]
    ELSE /\ nextEvent' = nextEvent + 1
         /\ lastR' = [did EXCEPT !.sent = nextEvent,
                                 !.content = Produced(callback, current_page)]
         /\ UNCHANGED paginations

\* show_discogs_collection / show_discogs_wantlist, for a sender with a linked
\* Discogs account (or a username argument).
\*   page       the page argument
\*   found      the first API call returns a document with the listing key
\*   pages      pagination.pages of that document
\*   outcome    what the callback does for the initial page
\*   sendOk     send_message returns an event id
ShowDiscogsList(kind) ==
    /\ nextEvent <= MaxEvents
    /\ \E sender \in Requesters, found \in BOOLEAN :
         LET base == [NoReaction(kind) EXCEPT !.sender = sender]
         IN  IF ~found THEN
                 \* "Could not retrieve ..." is sent
                 /\ lastR' = [base EXCEPT !.sent = nextEvent]
                 /\ nextEvent' = nextEvent + 1
                 /\ UNCHANGED paginations
             ELSE \E outcome \in CallbackOutcomes :
                 IF outcome = "raise" THEN
                     \* handle_command sends the error text
                     /\ \E page \in PageArgs :
                            lastR' = [base EXCEPT !.called = 1, !.page_arg = page,
                                                  !.sent = nextEvent]
                     /\ nextEvent' = nextEvent + 1
                     /\ UNCHANGED paginations
                 ELSE \E sendOk \in BOOLEAN :
                     \E page \in PageArgs :
                       IF ~sendOk THEN
                           /\ lastR' = [base EXCEPT !.called = 1, !.page_arg = page]
                           /\ UNCHANGED <<paginations, nextEvent>>
                       ELSE \E pages \in PageCounts :
                           send_paginated_message(
                               [base EXCEPT !.called = 1, !.page_arg = page],
                               sender, page, pages, kind)

show_discogs_collection ==
    /\ ShowDiscogsList("collection")
    /\ UNCHANGED <<cacheVars, stepVars, houseVars, calls, linkVars, paging>>

show_discogs_wantlist ==
    /\ ShowDiscogsList("wantlist")
    /\ UNCHANGED <<cacheVars, stepVars, houseVars, calls, linkVars, paging>>

\* (faulty variant) the new entry takes the page count from the page shown
track_new_message_losing_pages(table, reacted_event_id, new_event_id, new_page) ==
    Put(Drop(table, reacted_event_id), new_event_id,
        [room_id |-> table[reacted_event_id].room_id,
         user_id |-> table[reacted_event_id].user_id,
         current_page |-> new_page,
         total_pages |-> new_page,
         callback |-> table[reacted_event_id].callback,
         reaction_event_ids |-> <<>>])

\* (faulty variant) the entry is copied to the new message and stays under
\* the old one too
track_new_message_keeping_old(table, reacted_event_id, new_event_id, new_page) ==
    Put(table, new_event_id,
        [room_id |-> table[reacted_event_id].room_id,
         user_id |-> table[reacted_event_id].user_id,
         current_page |-> new_page,
         total_pages |-> table[reacted_event_id].total_pages,
         callback |-> table[reacted_event_id].callback,
         reaction_event_ids |-> <<>>])

\* "Update pagination to track new message": paginations.pop(reacted_event_id),
\* then paginations[new_event_id] = {...}, with reaction_event_ids = []
track_new_message(table, reacted_event_id, new_event_id, new_page) ==
    Put(Drop(table, reacted_event_id), new_event_id,
        [room_id |-> table[reacted_event_id].room_id,
         user_id |-> table[reacted_event_id].user_id,
         current_page |-> new_page,
         total_pages |-> table[reacted_event_id].total_pages,
         callback |-> table[reacted_event_id].callback,
         reaction_event_ids |-> <<>>])

\* (faulty variant) "next" goes two pages on
NewPageSkipping(goPrev, current_page) ==
    IF goPrev THEN current_page - 1 ELSE current_page + 2

\* new_page = current_page - 1, or current_page + 1
NewPage(goPrev, current_page) ==
    IF goPrev THEN current_page - 1 ELSE current_page + 1

\* handle_reaction(room, event, sender, client), all of it.
\*   outcome    what the callback does for the new page
\*   redactOk   room_redact does not raise
\*   sendOk     send_message returns an event id
\*   reactions  how many of the two reaction sends return before one raises
HandleReaction(sender, reacted_event_id, reaction_key) ==
    LET base == [NoReaction("handle_reaction") EXCEPT
                    !.sender = sender, !.target = reacted_event_id, !.key = reaction_key]
        ignored == /\ lastR' = base
                   /\ UNCHANGED <<paginations, nextEvent>>
    IN  IF reacted_event_id = 0 \/ reaction_key = "" THEN ignored
        ELSE IF reacted_event_id \notin DOMAIN paginations THEN ignored
        ELSE IF ~IsOriginalUser(sender, paginations[reacted_event_id]) THEN ignored
        ELSE
          LET pagination   == paginations[reacted_event_id]
              current_page == pagination.current_page
              total_pages  == pagination.total_pages
              goPrev       == GoPrev(reaction_key, current_page)
              goNext       == ~goPrev /\ GoNext(reaction_key, current_page, total_pages)
              new_page     == NewPage(goPrev, current_page)
              continues    == /\ lastR.nexts >= 0 /\ lastR.nexts < MaxEvents
                              /\ reaction_key = NextKey
                              /\ reacted_event_id = SessionKey(lastR)
              nexts        == IF continues THEN lastR.nexts + 1 ELSE -1
              updated      == update_page(paginations, reacted_event_id, new_page)
              did          == [base EXCEPT !.called = 1, !.page_arg = new_page]
              new_content  == Produced(pagination.callback, new_page)
          IN  IF ~(goPrev \/ goNext) THEN
                  /\ lastR' = [base EXCEPT !.nexts = nexts]
                  /\ UNCHANGED <<paginations, nextEvent>>
              ELSE
                /\ nextEvent <= MaxEvents
                /\ \E outcome \in CallbackOutcomes :
                     IF outcome = "raise" THEN
                         \* the page was updated, then the callback raised
                         /\ paginations' = updated
                         /\ lastR' = did
                         /\ UNCHANGED nextEvent
                     ELSE \E redactOk \in BOOLEAN, sendOk \in BOOLEAN :
                         IF ~sendOk THEN
                             /\ paginations' = updated
                             /\ lastR' = [did EXCEPT !.redacted = redactOk]
                             /\ UNCHANGED nextEvent
                         ELSE \E reactions \in 0..2 :
                             /\ paginations' =
                                  track_new_message(updated, reacted_event_id,
                                                    nextEvent, new_page)
                             /\ nextEvent' = nextEvent + 1
                             /\ lastR' = [did EXCEPT !.redacted = redactOk,
                                                     !.sent = nextEvent,
                                                     !.content = new_content,
                                                     !.reactions = reactions,
                                                     !.nexts = nexts]

\* FMatrixBot.reaction_callback: the bot's own reactions are dropped, the rest
\* go to handle_reaction.  A reaction relates to a message the bot has sent
\* and has a key, or (0, "") it carries no relation
reaction_callback ==
    \E sender \in Users \cup {BotUser}, reacted_event_id \in 0..(nextEvent - 1) :
      \E reaction_key \in (IF reacted_event_id = 0 THEN {""} ELSE ReactionKeys) :
        /\ IF sender = BotUser
           THEN /\ lastR' = [NoReaction("ignored_own") EXCEPT !.sender = sender]
                /\ UNCHANGED <<paginations, nextEvent>>
           ELSE HandleReaction(sender, reacted_event_id, reaction_key)
        /\ UNCHANGED <<cacheVars, stepVars, houseVars, calls, linkVars, paging>>

NextPagination ==
    \/ show_discogs_collection
    \/ show_discogs_wantlist
    \/ reaction_callback

-----------------------------------------------------------------------------
(* The cache: inputs and operations *)

\* the params get_top_artists builds for its request
TopArtistsParams(username, period, limit) ==
    <<<<"method", "user.gettopartists">>, <<"user", username>>,
      <<"period", period>>, <<"limit", limit>>>>

\* the params get_recent_tracks builds for its request
RecentTracksParams(username, limit) ==
    <<<<"method", "user.getrecenttracks">>, <<"user", username>>, <<"limit", limit>>>>

\* period.replace('7days', '7day')
NormalizePeriod(period) == IF period = "7days" THEN "7day" ELSE period

\* the mappings _request is called with directly: the listing request with
\* credential and format fields of the caller's own, and a recent-tracks request
RequestInputs ==
    { <<<<"api_key", "other">>, <<"format", "xml">>>> \o TopArtistsParams("u", "7day", "10"),
      RecentTracksParams("u", "10") }

\* which of get_lastfm_cache / set_lastfm_cache raises during a call, if any
Faults == {<<FALSE, FALSE>>, <<TRUE, FALSE>>, <<FALSE, TRUE>>}

\* the artists of a response body, as get_top_artists returns them
ArtistList(data) ==
    IF data = None \/ data.body = "nokey" THEN <<>>
    ELSE IF data.body = "empty" THEN <<>>
    ELSE IF data.body = "single" THEN <<"artist1">>
    ELSE <<"artist1", "artist2">>

\* the tables a deployment may run with: the one in the source, and the same
\* with the most volatile operation set to "never cache"
TtlTables == {CodeTtls, [CodeTtls EXCEPT !["user.getrecenttracks"] = 0]}

EmptyMap == [x \in {} |-> None]

\* the two callers whose _request calls run at the same time
Callers == {1, 2}

\* a caller with no call
Idle == [pc |-> "idle"]

NoCalls == [c \in Callers |-> Idle]

\* no get_all_top_* call has been made
NotPaging == [pc |-> "idle"]

Init ==
    /\ now = 0
    /\ _cache = EmptyMap
    /\ _cache_ttls \in TtlTables
    /\ cache_db = FALSE
    /\ lastfm_cache = EmptyMap
    /\ last = NoTrace("init")
    /\ paginations = EmptyMap
    /\ nextEvent = 1
    /\ lastR = NoReaction("init")
    /\ running = <<>>
    /\ room = EmptyMap
    /\ stats_cache = EmptyMap
    /\ auth_tokens = EmptyMap
    /\ calls = NoCalls
    /\ issued = 0
    /\ auth_token = EmptyMap
    /\ user_mappings = EmptyMap
    /\ paging = NotPaging

Tick ==
    \E d \in TickSteps :
        /\ now + d <= MaxTime
        /\ now' = now + d
        /\ last' = NoTrace("tick")
        /\ UNCHANGED <<_cache, _cache_ttls, cache_db, lastfm_cache>>
        /\ UNCHANGED <<pageVars, stepVars, houseVars, calls, linkVars, paging>>

set_cache_db ==
    /\ ~cache_db
    /\ cache_db' = TRUE
    /\ last' = NoTrace("set_cache_db")
    /\ UNCHANGED <<now, _cache, _cache_ttls, lastfm_cache>>
    /\ UNCHANGED <<pageVars, stepVars, houseVars, calls, linkVars, paging>>

\* the process ends and a new one starts: FMatrixBot.__init__ builds a new
\* LastfmClient; the database file stays
Restart ==
    /\ _cache' = EmptyMap
    /\ cache_db' = FALSE
    /\ last' = NoTrace("restart")
    /\ UNCHANGED <<now, _cache_ttls, lastfm_cache>>
    /\ UNCHANGED <<pageVars, stepVars, houseVars, calls, linkVars, paging>>

_request ==
    \E params \in RequestInputs, resp \in Responses, f \in Faults :
        LET r == Request(params, resp, f[1], f[2])
        IN  /\ _cache' = r.cache
            /\ lastfm_cache' = r.table
            /\ last' = Trace("_request", r, <<>>)
            /\ UNCHANGED <<now, _cache_ttls, cache_db>>
            /\ UNCHANGED <<pageVars, stepVars, houseVars, calls, linkVars, paging>>

get_top_artists ==
    \E resp \in Responses, f \in Faults :
        LET r == Request(TopArtistsParams("u", NormalizePeriod("7days"), "10"),
                         resp, f[1], f[2])
        IN  /\ _cache' = r.cache
            /\ lastfm_cache' = r.table
            /\ last' = Trace("get_top_artists", r, ArtistList(r.ret))
            /\ UNCHANGED <<now, _cache_ttls, cache_db>>
            /\ UNCHANGED <<pageVars, stepVars, houseVars, calls, linkVars, paging>>

Next ==
    \/ Tick
    \/ set_cache_db
    \/ Restart
    \/ _request
    \/ get_top_artists

Spec == Init /\ [][Next]_vars

\* the client in the running bot: FMatrixBot.__init__ builds the LastfmClient
\* and neither it nor init_db nor run calls set_cache_db
NextBot ==
    \/ Tick
    \/ Restart
    \/ _request
    \/ get_top_artists

SpecBot == Init /\ [][NextBot]_vars

\* the bot as constructed, with the TTL table of the source
InitPagination == Init /\ _cache_ttls = CodeTtls

SpecPagination == InitPagination /\ [][NextPagination]_vars

-----------------------------------------------------------------------------
(* Key derivation and TTL policy on their own *)

\* parameter names: one that _cache_key leaves out and three that it keeps
ParamNames == {"format", "limit", "method", "user"}

\* the values of a parameter: empty, or not
ParamValues == {"", "v"}

\* the mappings of up to MaxParams parameters, in every insertion order
KeyInputs ==
    UNION {{d \in [1..n -> ParamNames \X ParamValues] :
               \A i, j \in 1..n : i # j => d[i][1] # d[j][1]} : n \in 0..MaxParams}

\* the operation names the client requests, one it does not, and the empty one
Methods ==
    {"user.getrecenttracks", "user.gettopartists", "user.gettoptracks",
     "user.gettopalbums", "user.getinfo", "user.getlovedtracks", "artist.search",
     "track.search", "album.search", "artist.getinfo", "artist.gettopalbums",
     "track.getinfo", "album.getinfo", "auth.gettoken", "auth.getsession",
     "track.love", "track.unlove", "no.such", ""}

\* requests for every operation name, and requests with no method
TtlInputs ==
    {<<<<"method", m>>, <<"user", "u">>>> : m \in Methods}
    \cup {<<<<"user", "u">>, <<"method", m>>>> : m \in Methods}
    \cup {<<>>, <<<<"user", "u">>>>}

\* _cache_key(params), called on its own
Call_cache_key ==
    \E params \in KeyInputs :
        /\ last' = [NoTrace("_cache_key") EXCEPT
                        !.params = params, !.key = _cache_key(params)]
        /\ UNCHANGED <<now, _cache, _cache_ttls, cache_db, lastfm_cache>>
        /\ UNCHANGED <<pageVars, stepVars, houseVars, calls, linkVars, paging>>

\* _cache_ttl(params), called on its own
Call_cache_ttl ==
    \E params \in TtlInputs :
        /\ last' = [NoTrace("_cache_ttl") EXCEPT
                        !.params = params, !.ttl = _cache_ttl(params)]
        /\ UNCHANGED <<now, _cache, _cache_ttls, cache_db, lastfm_cache>>
        /\ UNCHANGED <<pageVars, stepVars, houseVars, calls, linkVars, paging>>

NextDerive ==
    \/ Call_cache_key
    \/ Call_cache_ttl

SpecKey == InitPagination /\ [][NextDerive]_vars

-----------------------------------------------------------------------------
(* Claims about the cache *)

IsRequest(l) == l.op \in {"_request", "get_top_artists"}

\* C1: no call returns a cached payload at or after the expiry assigned when the
\* payload was obtained from the network (fetch time + the operation's TTL).
C1_NoPayloadServedAfterExpiry ==
    (IsRequest(last) /\ last.src \in {"memory", "db"})
        => now < last.ret.at + last.ttl

\* C4: the value a fetch operation returns when the network call fails differs
\* from every value it returns when the call succeeds with an empty result.
C4_FailureDistinctFromEmpty ==
    (last.op = "get_top_artists" /\ last.src = "failed")
        => last.out # ArtistList([body |-> "empty", at |-> now])

\* a memory hit returns what the memory tier holds and does no I/O
MemoryHitNoIO ==
    (IsRequest(last) /\ last.src = "memory")
        => /\ last.ret = _cache[last.key].data
           /\ last.net = 0 /\ last.dbRead = 0 /\ last.dbDel = 0 /\ last.dbWrite = 0

\* a successful fetch with TTL > 0 leaves the payload in the memory tier
FetchStored ==
    (IsRequest(last) /\ last.src = "network" /\ last.ttl > 0)
        => /\ last.key \in DOMAIN _cache
           /\ _cache[last.key] = [cached_at |-> now, data |-> last.ret]

\* a request for a key whose memory entry is younger than the TTL returns that
\* entry's payload and changes neither tier
HitWhenFresh ==
    \A k \in DOMAIN _cache :
        (/\ IsRequest(last') /\ last'.key = k /\ last'.ttl > 0
         /\ now - _cache[k].cached_at < last'.ttl)
            => /\ last'.src = "memory"
               /\ last'.ret = _cache[k].data
               /\ _cache' = _cache /\ lastfm_cache' = lastfm_cache

\* a memory entry stays as it is until a request for its key or a restart
EntryKept ==
    \A k \in DOMAIN _cache :
        (last'.op # "restart" /\ ~(IsRequest(last') /\ last'.key = k))
            => k \in DOMAIN _cache' /\ _cache'[k] = _cache[k]

\* C5: after a successful fetch with TTL > 0, every later _request with the same
\* key before expiry returns exactly the stored payload, and a fresh memory hit
\* does no persistent read and no network call.
C5_FreshEntryServedWithoutIO ==
    /\ [](MemoryHitNoIO /\ FetchStored)
    /\ [][HitWhenFresh /\ EntryKept]_vars

C5_Witness ==
    IsRequest(last) /\ last.src = "memory" /\ last.ret.at < now

\* the payload held for key k, in either tier, has reached the expiry assigned
\* when it was fetched, and no tier this client reads holds an unexpired one
ExpiredInMemory(k, ttl) ==
    k \in DOMAIN _cache /\ now >= _cache[k].data.at + ttl

ExpiredInDb(k) ==
    k \in DOMAIN lastfm_cache /\ now >= fromisoformat(lastfm_cache[k].expires_at)

UnexpiredHeld(k, ttl) ==
    \/ k \in DOMAIN _cache /\ now < _cache[k].data.at + ttl
    \/ cache_db /\ k \in DOMAIN lastfm_cache
                /\ now < fromisoformat(lastfm_cache[k].expires_at)

\* C6: a _request made at or after an entry's expiry treats the entry as absent
\* in both tiers, removes the persistent record on that read, makes exactly one
\* network call and re-caches the fresh payload.
C6_ExpiredEntryRefetched ==
    [][ \A k \in DOMAIN _cache \cup DOMAIN lastfm_cache :
            (/\ IsRequest(last') /\ last'.key = k /\ last'.ttl > 0
             /\ ExpiredInMemory(k, last'.ttl) \/ ExpiredInDb(k)
             /\ ~UnexpiredHeld(k, last'.ttl)
             /\ ~last'.rdRaised)
                => /\ last'.net = 1
                   /\ (cache_db /\ ExpiredInDb(k)) => last'.dbDel = 1
                   /\ last'.resp = "ok" =>
                          /\ last'.ret.at = now
                          /\ k \in DOMAIN _cache'
                          /\ _cache'[k] = [cached_at |-> now, data |-> last'.ret]
      ]_vars

\* C7: with no fresh memory entry and an unexpired persistent record, _request
\* returns the persisted payload without a network call and leaves the memory
\* tier holding it.
C7_PersistentHitPromoted ==
    [][ \A k \in DOMAIN lastfm_cache :
            (/\ IsRequest(last') /\ last'.key = k /\ last'.ttl > 0
             /\ cache_db /\ ~last'.rdRaised
             /\ ~(k \in DOMAIN _cache /\ now - _cache[k].cached_at < last'.ttl)
             /\ now < fromisoformat(lastfm_cache[k].expires_at))
                => /\ last'.ret = json_loads(lastfm_cache[k].response_json)
                   /\ last'.src = "db"
                   /\ last'.net = 0
                   /\ k \in DOMAIN _cache'
                   /\ _cache'[k].data = last'.ret
      ]_vars

C7_Witness ==
    /\ IsRequest(last) /\ last.src = "db"
    /\ last.key \in DOMAIN _cache /\ _cache[last.key].data = last.ret

\* C8: a 200 response for an operation with TTL > 0 is written to the memory
\* tier and to the persistent tier, whose record expires at write time + TTL.
C8_SuccessWritesBothTiers ==
    (IsRequest(last) /\ last.src = "network" /\ last.ttl > 0)
        => /\ last.key \in DOMAIN _cache
           /\ _cache[last.key].data = last.ret
           /\ (cache_db /\ ~last.wrRaised) =>
                  /\ last.key \in DOMAIN lastfm_cache
                  /\ lastfm_cache[last.key] =
                         [response_json |-> json_dumps(last.ret),
                          expires_at |-> isoformat(now + last.ttl)]

C8_Witness ==
    /\ IsRequest(last) /\ last.src = "network" /\ last.ttl > 0
    /\ last.dbWrite = 1 /\ last.key \in DOMAIN lastfm_cache

\* the mappings requested in the model, as _request completes them
CompletedInputs ==
    {SetItem(SetItem(p, "api_key", api_key), "format", "json") :
        p \in RequestInputs \cup {TopArtistsParams("u", "7day", "10")}}

\* C9: for an operation whose TTL is 0 no entry is ever written to either tier,
\* and every _request for it goes to the network.
C9_ZeroTtlNeverCached ==
    /\ \A p \in CompletedInputs :
           _cache_ttl(p) = 0 =>
               /\ _cache_key(p) \notin DOMAIN _cache
               /\ _cache_key(p) \notin DOMAIN lastfm_cache
    /\ (IsRequest(last) /\ last.ttl = 0)
           => last.net = 1 /\ last.dbRead = 0 /\ last.dbWrite = 0

C9_Witness ==
    /\ IsRequest(last) /\ last.ttl = 0 /\ last.src = "network"
    /\ DOMAIN _cache # {} /\ DOMAIN lastfm_cache # {}

\* the credential fields and the response-format field of a request
CredentialFields == {"api_key"}

FormatField == "format"

Semantic(p) == SelectSeq(p, LAMBDA kv : kv[1] \notin CredentialFields \cup {FormatField})

\* mappings that differ from p only in credential and format fields
Variants(p) ==
    LET extra == {<<>>, <<<<"api_key", "other">>>>, <<<<"format", "xml">>>>,
                  <<<<"format", "json">>, <<"api_key", "">>>>}
    IN  {e \o Semantic(p) : e \in extra} \cup {Semantic(p) \o e : e \in extra}

\* C10: mappings that differ only in credential or format fields get the same
\* key, so fetches that differ only in credential value share one cache entry.
C10_CredentialsNotInKey ==
    IsRequest(last) =>
        /\ \A q \in Variants(last.params) : _cache_key(q) = last.key
        /\ (last.src = "network" /\ last.ttl > 0) =>
               \A q \in Variants(last.params) :
                   /\ _cache_key(q) \in DOMAIN _cache
                   /\ _cache[_cache_key(q)].data = last.ret

C10_Witness ==
    /\ IsRequest(last) /\ last.src = "memory"
    /\ Has(last.params, "api_key") /\ Get(last.params, "api_key") # api_key
    /\ last.ret.at < now

\* C14: in the running bot the second tier survives a restart: for a response
\* the bot fetched and still holds unexpired when the process ends, the new
\* process has the persistent tier attached and finds the response there,
\* unexpired, so that it is served without a network call.
C14_PersistentTierSurvivesRestart ==
    [][ last'.op = "restart" =>
          \A p \in CompletedInputs :
              LET k == _cache_key(p)
              IN  (k \in DOMAIN _cache /\ now < _cache[k].data.at + _cache_ttl(p))
                      => /\ cache_db'
                         /\ k \in DOMAIN lastfm_cache'
                         /\ json_loads(lastfm_cache'[k].response_json) = _cache[k].data
                         /\ now < fromisoformat(lastfm_cache'[k].expires_at)
      ]_vars

-----------------------------------------------------------------------------
(* Claims about key derivation and TTL policy *)

\* the mappings with the pairs of p, in every insertion order
Orderings(p) == {[i \in DOMAIN p |-> p[f[i]]] : f \in Permutations(DOMAIN p)}

\* C11: _cache_key does not depend on the insertion order of the parameters:
\* two mappings with the same set of key/value pairs get the same key.
C11_KeyIgnoresInsertionOrder ==
    last.op = "_cache_key" =>
        \A q \in Orderings(last.params) : _cache_key(q) = last.key

\* a key was derived for three kept parameters given in another order than
\* the sorted one
C11_Witness ==
    /\ last.op = "_cache_key"
    /\ Len(last.params) = 3
    /\ ~Has(last.params, "format")
    /\ sorted_items(last.params) # last.params
    /\ last.key # ""

\* the mapping d without parameter k
Without(d, k) == SelectSeq(d, LAMBDA kv : kv[1] # k)

\* C12: a parameter present with an empty value is kept in the key: the
\* mapping with the parameter empty and the otherwise identical mapping
\* without it get different keys (for the parameters the key is built from).
C12_EmptyValueKept ==
    last.op = "_cache_key" =>
        \A i \in DOMAIN last.params :
            (last.params[i][2] = "" /\ last.params[i][1] \notin SkippedFields)
                => _cache_key(Without(last.params, last.params[i][1])) # last.key

\* a key was derived for a mapping that has a kept parameter with an empty
\* value next to one with a value
C12_Witness ==
    /\ last.op = "_cache_key"
    /\ \E i, j \in DOMAIN last.params :
           /\ last.params[i][2] = "" /\ last.params[i][1] \notin SkippedFields
           /\ last.params[j][2] # "" /\ last.params[j][1] \notin SkippedFields

\* the operation name of a request, "None" when it has none
MethodOf(params) == IF Has(params, "method") THEN Get(params, "method") ELSE "None"

\* C13: _cache_ttl gives 30 s for user.getrecenttracks, 600 s for the
\* user.gettop* listings, 3600 s for artist.getinfo, track.getinfo and
\* artist.gettopalbums, and the default of 120 s for every operation that is
\* not in the table and for a request with no method.
C13_TtlByOperation ==
    last.op = "_cache_ttl" =>
        LET method == MethodOf(last.params)
        IN  /\ method = "user.getrecenttracks" => last.ttl = 30
            /\ method \in {"user.gettopartists", "user.gettoptracks",
                           "user.gettopalbums"} => last.ttl = 600
            /\ method \in {"artist.getinfo", "track.getinfo",
                           "artist.gettopalbums"} => last.ttl = 3600
            /\ (method \notin DOMAIN CodeTtls \/ ~Has(last.params, "method"))
                   => last.ttl = 120

\* the TTL of a request with no method was asked for, and it was the default
C13_Witness ==
    /\ last.op = "_cache_ttl"
    /\ ~Has(last.params, "method")
    /\ last.params # <<>>
    /\ last.ttl = _default_cache_ttl

-----------------------------------------------------------------------------
(* Claims about pagination *)

\* the step is handle_reaction for a reaction of the owner to a registered
\* paginated message
OwnerReaction ==
    /\ lastR'.op = "handle_reaction"
    /\ lastR'.target \in DOMAIN paginations
    /\ lastR'.sender = paginations[lastR'.target].user_id

\* the step left the registry as it was, called no callback, redacted and sent
\* no message and attached no reaction
NothingDone ==
    /\ paginations' = paginations
    /\ nextEvent' = nextEvent
    /\ lastR'.called = 0
    /\ lastR'.sent = 0
    /\ ~lastR'.redacted
    /\ lastR'.reactions = 0

\* C15: navigation does not wrap around: "previous" from the owner at
\* current_page = 1 and "next" from the owner at current_page = total_pages
\* leave the entry unchanged, call no content producer and neither delete
\* nor send a message.
C15_NoWrapAround ==
    [][ (/\ OwnerReaction
         /\ \/ /\ lastR'.key = PrevKey
               /\ paginations[lastR'.target].current_page = 1
            \/ /\ lastR'.key = NextKey
               /\ paginations[lastR'.target].current_page
                      = paginations[lastR'.target].total_pages)
            => NothingDone ]_vars

\* the owner has reacted with "next" to a message that shows the last page
C15_Witness ==
    /\ lastR.op = "handle_reaction"
    /\ lastR.key = NextKey
    /\ lastR.target \in DOMAIN paginations
    /\ lastR.sender = paginations[lastR.target].user_id
    /\ paginations[lastR.target].current_page = paginations[lastR.target].total_pages
    /\ lastR.called = 0

\* the step is handle_reaction for a reaction to a registered paginated message
\* from somebody who is not its owner
NonOwnerReaction ==
    /\ lastR'.op = "handle_reaction"
    /\ lastR'.target \in DOMAIN paginations
    /\ lastR'.sender # paginations[lastR'.target].user_id

\* C2: a reaction whose sender is not the owner of the targeted pagination
\* entry changes nothing, whatever the symbol and the page position: the
\* registry is the same before and after handle_reaction, the callback is not
\* called, no message is redacted or sent and no reaction is attached.
C2_NonOwnerReactionChangesNothing ==
    [][NonOwnerReaction =>
          /\ paginations' = paginations
          /\ nextEvent' = nextEvent
          /\ lastR'.called = 0
          /\ lastR'.sent = 0
          /\ ~lastR'.redacted
          /\ lastR'.reactions = 0]_vars

\* somebody else has reacted with "next" to a message whose owner could have
\* gone to the next page with it
C2_Witness ==
    /\ lastR.op = "handle_reaction"
    /\ lastR.key = NextKey
    /\ lastR.target \in DOMAIN paginations
    /\ lastR.sender # paginations[lastR.target].user_id
    /\ paginations[lastR.target].current_page >= 1
    /\ paginations[lastR.target].current_page < paginations[lastR.target].total_pages

\* C3: every entry of the pagination registry has
\* 1 <= current_page <= total_pages, whichever command registered it and
\* whatever reactions followed.
C3_PageWithinBounds ==
    \A event_id \in DOMAIN paginations :
        /\ 1 <= paginations[event_id].current_page
        /\ paginations[event_id].current_page <= paginations[event_id].total_pages

\* the page an in-range navigation symbol leads to from the entry, 0 when the
\* symbol is none of the two or its direction is out of range
Adjacent(entry, key) ==
    IF key = PrevKey /\ entry.current_page > 1 THEN entry.current_page - 1
    ELSE IF key = NextKey /\ entry.current_page < entry.total_pages
         THEN entry.current_page + 1
         ELSE 0

\* the key under which the session of the reacted message is after the step
KeyAfter == IF lastR'.sent # 0 THEN lastR'.sent ELSE lastR'.target

\* C16: when the owner reacts with a navigation symbol whose direction is in
\* range, the callback is called exactly once, with current_page - 1 or
\* current_page + 1; a replacement message that is sent has the content the
\* callback returned for that page; and the entry's current_page becomes that
\* page.  Nothing is kept from an earlier view: every such step calls the
\* callback.
C16_NavigationRendersNewPage ==
    [][ (OwnerReaction /\ Adjacent(paginations[lastR'.target], lastR'.key) # 0)
            => LET entry    == paginations[lastR'.target]
                   new_page == Adjacent(entry, lastR'.key)
               IN  /\ lastR'.called = 1
                   /\ lastR'.page_arg = new_page
                   /\ lastR'.sent # 0 =>
                          lastR'.content = Produced(entry.callback, new_page)
                   /\ KeyAfter \in DOMAIN paginations'
                   /\ paginations'[KeyAfter].current_page = new_page ]_vars

\* the owner went back from page 2, and page 1 was produced and sent as the
\* replacement message
C16_Witness ==
    /\ lastR.op = "handle_reaction"
    /\ lastR.key = PrevKey
    /\ lastR.target = 2
    /\ lastR.called = 1
    /\ lastR.sent = 3
    /\ lastR.content.page = 1
    /\ 3 \in DOMAIN paginations
    /\ paginations[3].current_page = 1

Min(a, b) == IF a < b THEN a ELSE b

\* C17: from a pagination registered at page 1 of N, k successive owner
\* "next" reactions, each on the message then rendered and each handled to
\* the end with the transport succeeding, leave the session at page
\* min(1 + k, N); a "next" beyond page N renders nothing.
C17_NextReachesMinOfPages ==
    lastR.nexts >= 0 =>
        /\ SessionKey(lastR) \in DOMAIN paginations
        /\ LET entry == paginations[SessionKey(lastR)]
           IN  /\ entry.current_page = Min(1 + lastR.nexts, entry.total_pages)
               /\ 1 + lastR.nexts > entry.total_pages =>
                      /\ lastR.called = 0
                      /\ lastR.sent = 0

\* of three pages, two "next" have reached page 3 and the third has left the
\* session there with nothing rendered
C17_Witness ==
    /\ lastR.op = "handle_reaction"
    /\ lastR.key = NextKey
    /\ lastR.nexts = 3
    /\ lastR.called = 0
    /\ lastR.sent = 0
    /\ paginations[lastR.target].total_pages = 3
    /\ paginations[lastR.target].current_page = 3

\* the step is handle_reaction and one of its preconditions fails: the message
\* reacted to has no registered state, the sender is not the owner, the symbol
\* is neither "previous" nor "next", or its direction is out of range
PreconditionFails ==
    /\ lastR'.op = "handle_reaction"
    /\ \/ lastR'.target \notin DOMAIN paginations
       \/ lastR'.sender # paginations[lastR'.target].user_id
       \/ lastR'.key \notin {PrevKey, NextKey}
       \/ Adjacent(paginations[lastR'.target], lastR'.key) = 0

\* C18: every precondition failure of handle_reaction (unknown symbol,
\* message without registered state, wrong owner, direction out of range) is
\* a silent no-op: no registry entry changes, no message is sent or redacted,
\* no callback runs and no reaction is attached.
C18_PreconditionFailureIsNoOp ==
    [][PreconditionFails =>
          /\ \A event_id \in DOMAIN paginations :
                 /\ event_id \in DOMAIN paginations'
                 /\ paginations'[event_id] = paginations[event_id]
          /\ DOMAIN paginations' = DOMAIN paginations
          /\ nextEvent' = nextEvent
          /\ lastR'.sent = 0
          /\ lastR'.content = NoContent
          /\ ~lastR'.redacted
          /\ lastR'.called = 0
          /\ lastR'.reactions = 0]_vars

\* the owner has reacted to a message of several pages, not on its first
\* page, with a symbol that is none of the navigation symbols
C18_Witness ==
    /\ lastR.op = "handle_reaction"
    /\ lastR.key = "+1"
    /\ lastR.target \in DOMAIN paginations
    /\ lastR.sender = paginations[lastR.target].user_id
    /\ paginations[lastR.target].current_page > 1
    /\ lastR.sent = 0

\* the step is an accepted navigation by the owner whose replacement message
\* was sent
NavigationSent ==
    /\ OwnerReaction
    /\ Adjacent(paginations[lastR'.target], lastR'.key) # 0
    /\ lastR'.sent # 0

\* C19: after an accepted navigation whose replacement message was sent, the
\* entry has moved to the new message: nothing is registered under the old
\* message, the session's state (room, owner, page count, callback) is under
\* the new one, the registry has as many entries as before, the other
\* entries are untouched and the moved entry's reaction_event_ids is empty.
C19_EntryMovesToNewMessage ==
    [][NavigationSent =>
          LET old_message_id == lastR'.target
              new_message_id == lastR'.sent
              before         == paginations[old_message_id]
          IN  /\ old_message_id \notin DOMAIN paginations'
              /\ new_message_id \in DOMAIN paginations'
              /\ new_message_id \notin DOMAIN paginations
              /\ paginations'[new_message_id].room_id = before.room_id
              /\ paginations'[new_message_id].user_id = before.user_id
              /\ paginations'[new_message_id].total_pages = before.total_pages
              /\ paginations'[new_message_id].callback = before.callback
              /\ paginations'[new_message_id].reaction_event_ids = <<>>
              /\ Cardinality(DOMAIN paginations') = Cardinality(DOMAIN paginations)
              /\ \A event_id \in DOMAIN paginations \ {old_message_id} :
                     /\ event_id \in DOMAIN paginations'
                     /\ paginations'[event_id] = paginations[event_id]]_vars

\* a "previous" of the owner has been answered with a replacement message,
\* and the session is registered under that message only
C19_Witness ==
    /\ lastR.op = "handle_reaction"
    /\ lastR.key = PrevKey
    /\ lastR.sent # 0
    /\ lastR.sent \in DOMAIN paginations
    /\ lastR.target \notin DOMAIN paginations
    /\ paginations[lastR.sent].current_page = lastR.page_arg

\* C20: on an accepted navigation the page and the message that keys the
\* entry change together.  A message is never edited, so it renders for good
\* the page it was sent with: when handle_reaction has finished, an entry
\* still keyed by a message that was there before has the page it had
\* before, and an entry keyed by a new message has the page of the content
\* sent in that message; no entry has the new page under the old message.
C20_PageAndKeyChangeTogether ==
    [][lastR'.op = "handle_reaction" =>
          \A event_id \in DOMAIN paginations' :
              IF event_id \in DOMAIN paginations
              THEN paginations'[event_id].current_page
                       = paginations[event_id].current_page
              ELSE /\ event_id = lastR'.sent
                   /\ paginations'[event_id].current_page
                          = lastR'.content.page]_vars

-----------------------------------------------------------------------------
(* The handlers step by step.  handle_command -> send_paginated_message and *)
(* reaction_callback -> handle_reaction are coroutines: each runs from one  *)
(* await to the next, and the sync loop of the bot awaits a callback before *)
(* it calls the next one.  A frame is one such coroutine: where it stands   *)
(* (pc), its arguments and locals, the steps it has made (done) and how it  *)
(* ended.                                                                   *)

Frame(op, sender, target, key, page, total_pages, callback, pc) ==
    [op |-> op, pc |-> pc, sender |-> sender, target |-> target, key |-> key,
     page |-> page, total_pages |-> total_pages, callback |-> callback,
     sent |-> 0, redact |-> "none", done |-> <<>>, ended |-> ""]

\* a message of the room: the page it shows (0 for an error text) and how
\* many reactions the bot has attached to it
Shown(page) == [page |-> page, controls |-> 0]

\* the page counts the commands of this part find
StepPageCounts == {1, 3}

\* the messages the bot sends in this part
MaxStepEvents == 2

RoomSendOutcomes == {"ok", "error", "raise"}

\* (faulty variant) a callback is started while another has not ended
MayDispatchAlways(frames) == Len(frames) < 2

\* nio awaits each event callback before it calls the next:
\* "await self.command_handler.handle_reaction(...)" inside the callback
MayDispatch(frames) == \A i \in DOMAIN frames : frames[i].pc = "done"

Unfinished(frames) == SelectSeq(frames, LAMBDA f : f.pc # "done")

\* message_callback -> handle_command -> show_discogs_* up to the call of
\* send_paginated_message(room, content, client, user_id, page, total, callback)
DispatchCommand ==
    /\ MayDispatch(running)
    /\ nextEvent <= MaxStepEvents
    /\ Cardinality(DOMAIN paginations) < MaxSessions
    /\ \E sender \in Requesters, total_pages \in StepPageCounts :
           running' = Append(Unfinished(running),
                             Frame("command", sender, 0, "", 1, total_pages,
                                   "collection", "send_message"))
    /\ UNCHANGED <<paginations, nextEvent, room, lastR>>
    /\ UNCHANGED <<cacheVars, houseVars, calls, linkVars, paging>>

Ended(f, how) == [f EXCEPT !.pc = "done", !.ended = how]

Did(f, step, pc) == [f EXCEPT !.pc = pc, !.done = Append(f.done, step)]

\* (faulty variant) a failed deletion ends the transition
AfterRedactAborting(f, ok) ==
    IF ok THEN Did([f EXCEPT !.redact = "ok"], "room_redact", "send_message")
    ELSE Ended(Did([f EXCEPT !.redact = "failed"], "room_redact", "done"),
               "redact_raised")

\* try: await client.room_redact(...) except Exception: logger.warning(...)
AfterRedact(f, ok) ==
    Did([f EXCEPT !.redact = IF ok THEN "ok" ELSE "failed"],
        "room_redact", "send_message")

\* (faulty variant) the controls are attached before the state is rebound
AfterSendControlsFirst(f) ==
    IF f.pc = "send_message" THEN "react_prev"
    ELSE IF f.pc = "react_prev" THEN "react_next"
    ELSE IF f.pc = "react_next" THEN "rebind"
    ELSE "done"

\* the order of handle_reaction after the message was sent: rebind, then the
\* two room_send calls for the reactions
AfterSend(f) ==
    IF f.pc = "send_message" THEN "rebind"
    ELSE IF f.pc = "rebind" THEN "react_prev"
    ELSE IF f.pc = "react_prev" THEN "react_next"
    ELSE "done"

\* the order of send_paginated_message after the message was sent
AfterSendCommand(f) ==
    IF f.pc = "send_message" THEN "register"
    ELSE IF f.pc = "register" THEN "react_prev"
    ELSE IF f.pc = "react_prev" THEN "react_next"
    ELSE "done"

Finish(f, step, pc) ==
    IF pc = "done" THEN Ended(Did(f, step, pc), "completed") ELSE Did(f, step, pc)

\* the tests of handle_reaction: the reaction relates to a message and has a
\* key, the message keys a session, the sender owns it and the key moves the
\* page
Navigates(sender, reacted_event_id, reaction_key) ==
    /\ reacted_event_id # 0 /\ reaction_key # ""
    /\ reacted_event_id \in DOMAIN paginations
    /\ IsOriginalUser(sender, paginations[reacted_event_id])
    /\ \/ GoPrev(reaction_key, paginations[reacted_event_id].current_page)
       \/ GoNext(reaction_key, paginations[reacted_event_id].current_page,
                 paginations[reacted_event_id].total_pages)

\* handle_reaction from its start to "await callback(new_page)", which it
\* reaches without an await: the tests and update_page.  A reaction that
\* fails a test leaves no coroutine behind
HandleReactionStart(sender, reacted_event_id, reaction_key) ==
    IF \/ reacted_event_id = 0 \/ reaction_key = ""
       \/ reacted_event_id \notin DOMAIN paginations
       \/ ~IsOriginalUser(sender, paginations[reacted_event_id])
    THEN /\ running' = Unfinished(running)
         /\ UNCHANGED paginations
    ELSE LET pagination == paginations[reacted_event_id]
             goPrev == GoPrev(reaction_key, pagination.current_page)
             goNext == ~goPrev /\ GoNext(reaction_key, pagination.current_page,
                                         pagination.total_pages)
             new_page == NewPage(goPrev, pagination.current_page)
         IN  IF ~(goPrev \/ goNext)
             THEN /\ running' = Unfinished(running)
                  /\ UNCHANGED paginations
             ELSE /\ paginations' = update_page(paginations, reacted_event_id,
                                                new_page)
                  /\ running' = Append(Unfinished(running),
                         Did(Frame("reaction", sender, reacted_event_id,
                                   reaction_key, new_page,
                                   pagination.total_pages,
                                   pagination.callback, "check"),
                             "update_page", "callback"))

\* reaction_callback: a reaction of somebody else than the bot goes to
\* handle_reaction
DispatchReaction ==
    /\ MayDispatch(running)
    /\ \E sender \in Users, reacted_event_id \in 0..(nextEvent - 1) :
         \E reaction_key \in (IF reacted_event_id = 0 THEN {""} ELSE ReactionKeys) :
           HandleReactionStart(sender, reacted_event_id, reaction_key)
    /\ UNCHANGED <<nextEvent, room, lastR>>
    /\ UNCHANGED <<cacheVars, houseVars, calls, linkVars, paging>>

\* the keys of the reactions the bot has attached to a message that carries
\* that many controls: the "previous" symbol first, then the "next" symbol
ControlKeys(controls) ==
    IF controls = 0 THEN {}
    ELSE IF controls = 1 THEN {PrevKey}
    ELSE {PrevKey, NextKey}

\* (faulty variant) reaction_callback does not look at the sender
IsOwnReactionNever(sender) == FALSE

\* if event.sender == self.config.matrix_user_id: return
IsOwnReaction(sender) == sender = BotUser

\* reaction_callback for a reaction the bot has attached itself, which the
\* homeserver delivers back to it like every event of the room
DispatchOwnReaction ==
    /\ MayDispatch(running)
    /\ \E reacted_event_id \in DOMAIN room :
         \E reaction_key \in ControlKeys(room[reacted_event_id].controls) :
           LET f == Frame("reaction", BotUser, reacted_event_id, reaction_key,
                          0, 0, "", "check")
           IN  IF IsOwnReaction(BotUser)
               THEN /\ running' = Append(Unfinished(running), Ended(f, "ignored_own"))
                    /\ UNCHANGED paginations
               ELSE IF Navigates(BotUser, reacted_event_id, reaction_key)
               THEN HandleReactionStart(BotUser, reacted_event_id, reaction_key)
               ELSE /\ running' = Append(Unfinished(running), Ended(f, "skipped"))
                    /\ UNCHANGED paginations
    /\ UNCHANGED <<nextEvent, room, lastR>>
    /\ UNCHANGED <<cacheVars, houseVars, calls, linkVars, paging>>

\* new_content = await callback(new_page)
StepCallback(i) ==
    LET f == running[i]
    IN  /\ f.op = "reaction" /\ f.pc = "callback"
        /\ \E outcome \in CallbackOutcomes :
             running' = [running EXCEPT ![i] =
                 IF outcome = "raise" THEN Ended(Did(f, "callback", "done"), "callback_raised")
                 ELSE Did(f, "callback", "room_redact")]
        /\ UNCHANGED <<paginations, nextEvent, room>>

\* await client.room_redact(room.room_id, reacted_event_id), inside its own try
StepRedact(i) ==
    LET f == running[i]
    IN  /\ f.op = "reaction" /\ f.pc = "room_redact"
        /\ \E ok \in BOOLEAN :
             running' = [running EXCEPT ![i] = AfterRedact(f, ok)]
        /\ UNCHANGED <<paginations, nextEvent, room>>

\* event_id = await self.send_message(...), in a transition and in
\* send_paginated_message
StepSend(i) ==
    LET f == running[i]
    IN  /\ f.pc = "send_message"
        /\ \E ok \in BOOLEAN :
             IF ok THEN
                 /\ nextEvent <= MaxStepEvents
                 /\ room' = Put(room, nextEvent, Shown(f.page))
                 /\ nextEvent' = nextEvent + 1
                 /\ running' = [running EXCEPT ![i] =
                        LET g == [f EXCEPT !.sent = nextEvent]
                        IN  IF f.op = "command" /\ ~(f.total_pages > 1)
                            THEN Ended(Did(g, "send_message", "done"), "completed")
                            ELSE Did(g, "send_message",
                                     IF f.op = "command" THEN AfterSendCommand(f)
                                     ELSE AfterSend(f))]
             ELSE
                 /\ running' = [running EXCEPT ![i] =
                        Ended(Did(f, "send_message", "done"), "send_failed")]
                 /\ UNCHANGED <<nextEvent, room>>
        /\ UNCHANGED paginations

\* self.pagination.register(event_id, room.room_id, user_id, current_page,
\* total_pages, callback)
StepRegister(i) ==
    LET f == running[i]
    IN  /\ f.op = "command" /\ f.pc = "register"
        /\ paginations' = register(paginations, f.sent, RoomId, f.sender, f.page,
                                   f.total_pages, f.callback)
        /\ running' = [running EXCEPT ![i] = Did(f, "register", AfterSendCommand(f))]
        /\ UNCHANGED <<nextEvent, room>>

\* "Update pagination to track new message"
StepRebind(i) ==
    LET f == running[i]
    IN  /\ f.op = "reaction" /\ f.pc = "rebind"
        /\ paginations' = IF f.target \in DOMAIN paginations
                          THEN track_new_message(paginations, f.target, f.sent, f.page)
                          ELSE paginations
        /\ running' = [running EXCEPT ![i] = Finish(f, "rebind", AfterSend(f))]
        /\ UNCHANGED <<nextEvent, room>>

\* one "await client.room_send(..., m.reaction, ...)" for the new message: the
\* reaction is attached, or the server answers with an error, or the call
\* raises (in a command, handle_command then reports the error to the room)
StepReact(i) ==
    LET f == running[i]
        next == IF f.op = "command" THEN AfterSendCommand(f) ELSE AfterSend(f)
    IN  /\ f.pc \in {"react_prev", "react_next"}
        /\ \E outcome \in RoomSendOutcomes :
             IF outcome = "raise" THEN
                 /\ running' = [running EXCEPT ![i] =
                        IF f.op = "command" THEN Did(f, "room_send", "report_error")
                        ELSE Ended(Did(f, "room_send", "done"), "room_send_raised")]
                 /\ UNCHANGED room
             ELSE
                 /\ running' = [running EXCEPT ![i] = Finish(f, "room_send", next)]
                 /\ room' = IF outcome = "ok"
                            THEN [room EXCEPT ![f.sent].controls = @ + 1]
                            ELSE room
        /\ UNCHANGED <<paginations, nextEvent>>

\* handle_command: except Exception as e: await self.send_message(room,
\* "Error processing command: ...", client)
StepReportError(i) ==
    LET f == running[i]
    IN  /\ f.op = "command" /\ f.pc = "report_error"
        /\ \E ok \in BOOLEAN :
             IF ok /\ nextEvent <= MaxStepEvents THEN
                 /\ room' = Put(room, nextEvent, Shown(0))
                 /\ nextEvent' = nextEvent + 1
             ELSE UNCHANGED <<nextEvent, room>>
        /\ running' = [running EXCEPT ![i] =
               Ended(Did(f, "report_error", "done"), "room_send_raised")]
        /\ UNCHANGED paginations

HandlerStep ==
    /\ \E i \in DOMAIN running :
           \/ StepCallback(i) \/ StepRedact(i) \/ StepSend(i)
           \/ StepRegister(i) \/ StepRebind(i) \/ StepReact(i) \/ StepReportError(i)
    /\ UNCHANGED lastR
    /\ UNCHANGED <<cacheVars, houseVars, calls, linkVars, paging>>

NextSteps ==
    DispatchCommand \/ DispatchReaction \/ DispatchOwnReaction \/ HandlerStep

SpecSteps == InitPagination /\ [][NextSteps]_vars

-----------------------------------------------------------------------------
(* Claims about the handlers step by step *)

HasDone(f, step) == \E j \in DOMAIN f.done : f.done[j] = step

TimesDone(f, step) == Cardinality({j \in DOMAIN f.done : f.done[j] = step})

\* C21: when the deletion of the superseded message fails in an accepted
\* page transition, the transition goes on: send_message is still called,
\* and once the replacement is sent the state is rebound to it with the new
\* page and both reactions are sent to it unless a send to the room fails.
C21_FailedDeletionIsNotFatal ==
    \A i \in DOMAIN running :
        LET f == running[i]
        IN  (f.op = "reaction" /\ f.redact = "failed") =>
              /\ f.pc = "done" => HasDone(f, "send_message")
              /\ (f.sent # 0 /\ f.pc \in {"react_prev", "react_next", "done"}) =>
                    /\ f.sent \in DOMAIN paginations
                    /\ f.target \notin DOMAIN paginations
                    /\ paginations[f.sent].current_page = f.page
              /\ f.ended = "completed" =>
                    /\ f.sent # 0
                    /\ TimesDone(f, "room_send") = 2

\* a transition whose deletion failed has ended: the replacement is in the
\* room with both reactions and the entry is under it with the new page
C21_Witness ==
    \E i \in DOMAIN running :
        LET f == running[i]
        IN  /\ f.op = "reaction" /\ f.redact = "failed" /\ f.ended = "completed"
            /\ f.sent \in DOMAIN room
            /\ room[f.sent].controls = 2
            /\ room[f.sent].page = f.page
            /\ f.sent \in DOMAIN paginations
            /\ paginations[f.sent].current_page = f.page

-----------------------------------------------------------------------------
(* PaginationManager.register on its own *)

\* the page counts a caller can pass
RegisterPageCounts == -1..2

\* PaginationManager.register(event_id, room_id, user_id, current_page,
\* total_pages, callback) called by any caller
Call_register ==
    /\ \E event_id \in 1..MaxEvents, current_page \in 1..2,
          total_pages \in RegisterPageCounts :
           paginations' = register(paginations, event_id, RoomId, "@alice",
                                   current_page, total_pages, "collection")
    /\ UNCHANGED <<nextEvent, lastR>>
    /\ UNCHANGED <<cacheVars, stepVars, houseVars, calls, linkVars, paging>>

NextRegister == Call_register

SpecRegister == InitPagination /\ [][NextRegister]_vars

\* C22: registering a pagination with total_pages < 1 fails:
\* PaginationManager.register creates no entry for such a request, so no
\* entry of the registry has total_pages < 1.
C22_RegisterRejectsNoPages ==
    \A event_id \in DOMAIN paginations : paginations[event_id].total_pages >= 1

\* C23: once the two navigation reactions are attached to a rendered message,
\* on the initial send and after an accepted navigation, the entry's
\* reaction_event_ids holds the identifiers of those two reactions.
C23_ControlIdsRecorded ==
    \A i \in DOMAIN running :
        LET f == running[i]
        IN  (/\ f.ended = "completed"
             /\ f.sent \in DOMAIN paginations
             /\ room[f.sent].controls = 2)
                => Len(paginations[f.sent].reaction_event_ids) = 2

-----------------------------------------------------------------------------
(* The hourly cleanup: FMatrixBot.cache_cleanup_loop and the tables it sweeps *)

\* the iterations of the loop that are looked at
MaxSleeps == 26

\* the times at which records are written
InsertTimes == {0, 3600}

\* the methods class Database defines
DatabaseMethods ==
    {"init", "_migrate_database", "close", "link_user", "get_lastfm_username",
     "set_lastfm_session_key", "get_lastfm_session_key", "get_all_users_in_room",
     "cache_stats", "get_cached_stats", "clear_old_cache", "get_lastfm_cache",
     "set_lastfm_cache", "store_auth_token", "get_auth_token", "delete_auth_token",
     "clear_old_auth_tokens", "link_discogs_user", "get_discogs_username",
     "unlink_discogs_user"}

\* the calls of one iteration, in order
CleanupCalls ==
    <<"clear_old_cache", "clear_old_playcount_cache", "clear_old_auth_tokens">>

\* DELETE FROM <table> WHERE <column> < datetime('now', '-N hours'), at time t
OlderDeleted(table, t, max_age_hours) ==
    [k \in {x \in DOMAIN table : ~(table[x] < t - max_age_hours * 3600)} |-> table[k]]

\* Database.clear_old_cache: DELETE FROM stats_cache WHERE cached_at < ...
clear_old_cache(t, max_age_hours) == OlderDeleted(stats_cache, t, max_age_hours)

\* Database.clear_old_auth_tokens: DELETE FROM auth_tokens WHERE created_at < ...
clear_old_auth_tokens(t, max_age_hours) == OlderDeleted(auth_tokens, t, max_age_hours)

\* the calls of an iteration that run: those before the first call of a
\* method the object does not have (AttributeError, caught by the except of
\* the loop)
RECURSIVE CallsRun(_)
CallsRun(todo) ==
    IF todo = <<>> \/ Head(todo) \notin DatabaseMethods THEN <<>>
    ELSE <<Head(todo)>> \o CallsRun(Tail(todo))

InSeq(x, seq) == \E j \in DOMAIN seq : seq[j] = x

\* the params get_user_info builds for its request
UserInfoParams(username) == <<<<"method", "user.getinfo">>, <<"user", username>>>>

\* Database.cache_stats(lastfm_username, stats_json)
cache_stats ==
    /\ now \in InsertTimes
    /\ stats_cache' = Put(stats_cache, "u", now)
    /\ last' = NoTrace("cache_stats")
    /\ UNCHANGED <<now, _cache, _cache_ttls, cache_db, lastfm_cache, auth_tokens, calls, linkVars, paging>>
    /\ UNCHANGED <<pageVars, stepVars>>

\* Database.store_auth_token(matrix_user_id, auth_token)
store_auth_token ==
    /\ now \in InsertTimes
    /\ auth_tokens' = Put(auth_tokens, "@alice", now)
    /\ auth_token' = Put(auth_token, "@alice", "t1")
    /\ last' = NoTrace("store_auth_token")
    /\ UNCHANGED <<now, _cache, _cache_ttls, cache_db, lastfm_cache, stats_cache, calls>>
    /\ UNCHANGED <<issued, user_mappings, paging>>
    /\ UNCHANGED <<pageVars, stepVars>>

\* Database.set_lastfm_cache(cache_key, response_json, ttl_seconds)
Call_set_lastfm_cache ==
    /\ now \in InsertTimes
    /\ lastfm_cache' = set_lastfm_cache(lastfm_cache, _cache_key(UserInfoParams("u")),
                                        json_dumps([body |-> "list", at |-> now]),
                                        _cache_ttl(UserInfoParams("u")))
    /\ last' = NoTrace("set_lastfm_cache")
    /\ UNCHANGED <<now, _cache, _cache_ttls, cache_db, stats_cache, auth_tokens, calls, linkVars, paging>>
    /\ UNCHANGED <<pageVars, stepVars>>

\* one iteration of cache_cleanup_loop: asyncio.sleep(3600), then the calls;
\* an exception ends the iteration and the loop goes on
cache_cleanup_loop ==
    /\ now + 3600 <= MaxSleeps * 3600
    /\ now' = now + 3600
    /\ LET ran == CallsRun(CleanupCalls)
       IN  /\ stats_cache' = IF InSeq("clear_old_cache", ran)
                             THEN clear_old_cache(now', 24) ELSE stats_cache
           /\ auth_tokens' = IF InSeq("clear_old_auth_tokens", ran)
                             THEN clear_old_auth_tokens(now', 24) ELSE auth_tokens
           /\ last' = [NoTrace("cache_cleanup_loop") EXCEPT
                          !.out = ran, !.rdRaised = Len(ran) < Len(CleanupCalls)]
    /\ UNCHANGED <<_cache, _cache_ttls, cache_db, lastfm_cache, calls, linkVars, paging>>
    /\ UNCHANGED <<pageVars, stepVars>>

NextCleanup ==
    cache_stats \/ store_auth_token \/ Call_set_lastfm_cache \/ cache_cleanup_loop

SpecCleanup == InitPagination /\ [][NextCleanup]_vars

\* C24: the hourly sweep purges expired persistent-cache rows: after an
\* iteration of the cleanup loop no lastfm_cache row is left whose
\* expires_at had passed when the iteration ran, read again or not.
C24_SweepPurgesExpiredRows ==
    [][last'.op = "cache_cleanup_loop" =>
          \A cache_key \in DOMAIN lastfm_cache' :
              now' < fromisoformat(lastfm_cache'[cache_key].expires_at)]_vars

\* C30: every iteration of the hourly cleanup loop purges all its
\* housekeeping records: after an iteration no stats_cache row and no
\* auth_tokens row is older than 24 hours; and an error in an iteration
\* does not keep the next one from running.
C30_EveryIterationPurgesAll ==
    [][/\ last'.op = "cache_cleanup_loop" =>
            /\ \A u \in DOMAIN stats_cache' : ~(stats_cache'[u] < now' - 24 * 3600)
            /\ \A u \in DOMAIN auth_tokens' : ~(auth_tokens'[u] < now' - 24 * 3600)
       /\ (/\ last.op = "cache_cleanup_loop" /\ last.rdRaised
           /\ now + 3600 <= MaxSleeps * 3600) => ENABLED cache_cleanup_loop]_vars

-----------------------------------------------------------------------------
(* _request as a coroutine: several calls on one client, each running from   *)
(* one await to the next.  A statement sent to the database connection takes *)
(* effect when it is sent (the connection runs them in that order); the call *)
(* goes on when its await returns.                                           *)

NoRow == [response_json |-> json_dumps(None), expires_at |-> isoformat(-1)]

InFlight(c) == calls[c].pc \notin {"idle", "done"}

\* (faulty variant) a call that finds another one in flight does not fetch
CoalescesWithInFlight(others) == others # {}

\* _request keeps no table of requests in flight: a call never waits for
\* another one
Coalesces(others) == FALSE

Returned(f, ret, src) == [f EXCEPT !.pc = "done", !.ret = ret, !.src = src]

\* _request from its start to its first await
Begin(c) ==
    LET params    == SetItem(SetItem(UserInfoParams("u"), "api_key", api_key),
                             "format", "json")
        ttl       == _cache_ttl(params)
        cache_key == _cache_key(params)
        cached    == cache_key \in DOMAIN _cache
        memHit    == ttl > 0 /\ cached /\ MemoryFresh(_cache[cache_key].cached_at, ttl)
        row       == IF cache_key \in DOMAIN lastfm_cache
                     THEN lastfm_cache[cache_key] ELSE NoRow
        rowFresh  == /\ cache_db /\ cache_key \in DOMAIN lastfm_cache
                     /\ ~RowExpired(fromisoformat(row.expires_at))
        others    == {d \in DOMAIN calls \ {c} : InFlight(d)}
        f         == [pc |-> "begin", cache_key |-> cache_key, ttl |-> ttl,
                      row |-> NoRow, got |-> None, ret |-> None, src |-> "none",
                      net |-> 0, deleted |-> FALSE,
                      missed |-> ttl > 0 /\ ~memHit /\ ~rowFresh,
                      overlap |-> others # {}]
    IN  /\ ~InFlight(c)
        /\ IF memHit THEN
               /\ calls' = [calls EXCEPT ![c] =
                               Returned(f, _cache[cache_key].data, "memory")]
               /\ UNCHANGED _cache
           ELSE
               /\ _cache' = IF ttl > 0 /\ cached THEN Drop(_cache, cache_key) ELSE _cache
               /\ calls' = [d \in DOMAIN calls |->
                               IF d = c THEN
                                   IF Coalesces(others) THEN Returned(f, None, "joined")
                                   ELSE IF ttl > 0 /\ cache_db
                                        THEN [f EXCEPT !.pc = "db_read", !.row = row]
                                        ELSE [f EXCEPT !.pc = "net"]
                               ELSE IF d \in others
                                    THEN [calls[d] EXCEPT !.overlap = TRUE]
                                    ELSE calls[d]]
        /\ UNCHANGED <<now, _cache_ttls, cache_db, lastfm_cache, last>>

\* get_lastfm_cache after "row = await cursor.fetchone()": the row read at the
\* SELECT is tested for expiry, an expired one is deleted by key; or the read
\* raised
DbReadReturns(c) ==
    LET f == calls[c]
    IN  /\ f.pc = "db_read"
        /\ \E raised \in BOOLEAN :
             IF raised \/ f.row = NoRow THEN
                 /\ calls' = [calls EXCEPT ![c].pc = "net"]
                 /\ UNCHANGED <<_cache, lastfm_cache>>
             ELSE IF RowExpired(fromisoformat(f.row.expires_at)) THEN
                 /\ lastfm_cache' = Drop(lastfm_cache, f.cache_key)
                 /\ calls' = [calls EXCEPT ![c].pc = "net", ![c].deleted = TRUE]
                 /\ UNCHANGED _cache
             ELSE
                 /\ _cache' = Put(_cache, f.cache_key,
                                  Promoted(json_loads(f.row.response_json)))
                 /\ calls' = [calls EXCEPT ![c] =
                                 Returned(f, json_loads(f.row.response_json), "db")]
                 /\ UNCHANGED lastfm_cache
        /\ UNCHANGED <<now, _cache_ttls, cache_db, last>>

\* the response of session.get arrives: on 200 the two cache writes, the
\* second one awaited
NetReturns(c) ==
    LET f == calls[c]
    IN  /\ f.pc = "net"
        /\ \E resp \in Responses, wrRaises \in BOOLEAN :
             IF resp.kind = "ok" THEN
                 LET data == [body |-> resp.body, at |-> now]
                     g    == [f EXCEPT !.net = 1, !.got = data]
                 IN  /\ _cache' = IF CachesResponse(f.ttl)
                                  THEN Put(_cache, f.cache_key,
                                           [cached_at |-> now, data |-> data])
                                  ELSE _cache
                     /\ lastfm_cache' =
                            IF CachesResponse(f.ttl) /\ cache_db /\ ~wrRaises
                            THEN set_lastfm_cache(lastfm_cache, f.cache_key,
                                                  json_dumps(data), f.ttl)
                            ELSE lastfm_cache
                     /\ calls' = [calls EXCEPT ![c] =
                            IF CachesResponse(f.ttl) /\ cache_db
                            THEN [g EXCEPT !.pc = "db_write", !.ret = data]
                            ELSE Returned(g, data, "network")]
             ELSE
                 /\ calls' = [calls EXCEPT ![c] =
                                 Returned([f EXCEPT !.net = 1], None, "failed")]
                 /\ UNCHANGED <<_cache, lastfm_cache>>
        /\ UNCHANGED <<now, _cache_ttls, cache_db, last>>

\* "await self.cache_db.set_lastfm_cache(...)" returns; return data
DbWriteReturns(c) ==
    LET f == calls[c]
    IN  /\ f.pc = "db_write"
        /\ calls' = [calls EXCEPT ![c] = Returned(f, f.ret, "network")]
        /\ UNCHANGED <<now, _cache, _cache_ttls, cache_db, lastfm_cache, last>>

RequestStep ==
    /\ \E c \in DOMAIN calls :
           Begin(c) \/ DbReadReturns(c) \/ NetReturns(c) \/ DbWriteReturns(c)
    /\ UNCHANGED <<pageVars, stepVars, houseVars, linkVars, paging>>

\* a step of the clock is longer than a request takes
\* (aiohttp.ClientTimeout(total=10)): time passes between calls
TickBetweenCalls ==
    /\ \A c \in DOMAIN calls : ~InFlight(c)
    /\ Tick

NextFetch == TickBetweenCalls \/ set_cache_db \/ RequestStep

SpecFetch == InitPagination /\ [][NextFetch]_vars

\* C25: no deletion of a persistent cache record removes a record that is
\* unexpired at the moment of the delete; a record refreshed between a
\* fetch's read of the expired row and its delete survives.
C25_DeleteOnlyExpired ==
    [][\A cache_key \in DOMAIN lastfm_cache :
           cache_key \notin DOMAIN lastfm_cache'
               => RowExpired(fromisoformat(lastfm_cache[cache_key].expires_at))]_vars

\* C26: there is no request coalescing: of two _request calls for the same
\* key that are in progress at the same time, each one that found no fresh
\* entry when it started performs a network call of its own and returns the
\* payload it received (None when its request failed).
C26_NoCoalescing ==
    \A c \in DOMAIN calls :
        (calls[c].pc = "done" /\ calls[c].overlap /\ calls[c].missed) =>
            /\ calls[c].net = 1
            /\ calls[c].ret = calls[c].got

\* the calls overlapped, found nothing fresh and have ended, each with the
\* payload of a network call of its own, different from the others' 
C26_Witness ==
    \A c \in DOMAIN calls :
        /\ calls[c].pc = "done" /\ calls[c].overlap /\ calls[c].missed
        /\ calls[c].net = 1
        /\ calls[c].ret # None
        /\ \A d \in DOMAIN calls \ {c} : calls[d].ret # calls[c].ret

-----------------------------------------------------------------------------
(* Claims about reactions that follow one another *)

\* the distance between two pages
PageDistance(a, b) == IF a < b THEN b - a ELSE a - b

\* the handlers run one after the other: at most one is between its start
\* and its end, and a replacement that carries controls has its entry
SequentialHandlers ==
    /\ \A i, j \in DOMAIN running :
           (i # j /\ running[i].pc # "done") => running[j].pc = "done"
    /\ \A i \in DOMAIN running :
           LET f == running[i]
           IN  (f.op = "reaction" /\ f.sent # 0 /\ room[f.sent].controls > 0)
                   => f.sent \in DOMAIN paginations

\* C27: reactions are handled strictly one after the other: no two
\* navigations are in progress at the same time, and so two reactions of the
\* owner on one message never advance the page twice from that one rendered
\* message (the entry keyed by a message is at most one page away from the
\* page the message shows) and never leave a replacement with controls but
\* without a registry entry.
C27_OneNavigationPerRenderedMessage ==
    /\ SequentialHandlers
    /\ \A event_id \in DOMAIN paginations :
           event_id \in DOMAIN room =>
               PageDistance(paginations[event_id].current_page,
                            room[event_id].page) <= 1

\* the notification handled by frame g is the one frame f handled
SameNotification(f, g) ==
    /\ f.op = "reaction" /\ g.op = "reaction"
    /\ f.sender = g.sender /\ f.target = g.target /\ f.key = g.key

\* C28: a reaction notification that is delivered twice and handled twice in
\* a row advances the page at most once: when the handling of a notification
\* that advanced the page has ended, however it ended, handling the same
\* notification again does not advance the page again.
C28_RedeliveryAdvancesOnce ==
    [][\A i \in DOMAIN running :
           (running[i].op = "reaction" /\ running[i].pc = "done") =>
               ~\E j \in DOMAIN running' :
                   /\ running'[j].pc = "callback"
                   /\ SameNotification(running[i], running'[j])
                   /\ paginations'[running[i].target].current_page
                          # paginations[running[i].target].current_page]_vars

-----------------------------------------------------------------------------
(* Claims about the order of the steps *)

\* seq is the beginning of whole
IsPrefix(seq, whole) ==
    /\ Len(seq) <= Len(whole)
    /\ \A j \in DOMAIN seq : seq[j] = whole[j]

\* the steps of an accepted navigation, in the order of handle_reaction
NavigationOrder ==
    <<"update_page", "callback", "room_redact", "send_message", "rebind",
      "room_send", "room_send">>

\* the steps of send_paginated_message for more than one page, and the same
\* steps when a send of a reaction raised and handle_command reports it
InitialSendOrder == <<"send_message", "register", "room_send", "room_send">>

\* C29: the steps of an accepted navigation come in this order: the content
\* of the new page is produced, the deletion of the old message is attempted,
\* the new message is sent, the state is rebound to it, and then the two
\* controls are attached; in the initial send and in a transition a reaction
\* is sent to a message only when a registry entry keyed by it exists.
C29_StepsInOrder ==
    \A i \in DOMAIN running :
        LET f == running[i]
        IN  /\ f.op = "reaction" => IsPrefix(f.done, NavigationOrder)
            /\ f.op = "command" =>
                   \/ IsPrefix(f.done, InitialSendOrder)
                   \/ /\ f.done[Len(f.done)] = "report_error"
                      /\ IsPrefix(SubSeq(f.done, 1, Len(f.done) - 1), InitialSendOrder)
            /\ (f.pc \in {"react_prev", "react_next"} \/ HasDone(f, "room_send")) =>
                   /\ f.sent \in DOMAIN paginations
                   /\ paginations[f.sent].current_page = f.page

\* a navigation went through all its steps and the replacement carries both
\* controls and keys the entry
C29_Witness ==
    \E i \in DOMAIN running :
        LET f == running[i]
        IN  /\ f.op = "reaction" /\ f.ended = "completed"
            /\ f.done = NavigationOrder
            /\ room[f.sent].controls = 2
            /\ f.sent \in DOMAIN paginations
            /\ f.target \notin DOMAIN paginations

-----------------------------------------------------------------------------
(* Claims about failures of the network and of the persistent tier *)

\* a _request that ends in a failure leaves no entry of its own: the key is
\* not in the memory tier, no persistent write was made and the persistent
\* row of the key is as before or gone (an expired row the read deleted)
FailureWritesNothing ==
    (IsRequest(last') /\ last'.src = "failed") =>
        /\ last'.dbWrite = 0
        /\ last'.key \notin DOMAIN _cache'
        /\ last'.key \in DOMAIN lastfm_cache' =>
               /\ last'.key \in DOMAIN lastfm_cache
               /\ lastfm_cache'[last'.key] = lastfm_cache[last'.key]

\* two calls in a row for one key, the first of which failed
AfterFailedCall ==
    /\ IsRequest(last) /\ last.src = "failed"
    /\ IsRequest(last') /\ last'.key = last.key

C32_PersistentFailureNotFatal ==
    IsRequest(last) =>
        /\ last.rdRaised =>
               /\ last.net = 1
               /\ last.resp = "ok" => (last.src = "network" /\ last.ret # None)
        /\ last.wrRaised =>
               /\ last.src = "network" /\ last.ret # None
               /\ last.key \in DOMAIN _cache
               /\ _cache[last.key] = [cached_at |-> now, data |-> last.ret]

\* the persistent write raised after a 200 response and the payload was
\* returned and is in the memory tier, not in the persistent one
C32_Witness ==
    /\ IsRequest(last) /\ last.wrRaised
    /\ last.ret # None
    /\ last.key \in DOMAIN _cache
    /\ last.key \notin DOMAIN lastfm_cache

-----------------------------------------------------------------------------
(* Account linking: the Last.fm authorization flow and table user_mappings *)

\* the auth tokens Last.fm issues that are looked at
MaxTokens == 2

\* the n-th token Last.fm issues: every auth.gettoken request that is
\* answered gets a token of its own
TokenNames == <<"t1", "t2", "t3", "t4", "t5", "t6">>

api_secret == "S"

\* _get_api_signature(params): md5 of the sorted pairs, each key followed by
\* its value, and the secret
_get_api_signature(params) ==
    LET items == sorted_items(params)
    IN  "md5(" \o join("", [i \in DOMAIN items |-> items[i][1] \o items[i][2]])
               \o api_secret \o ")"

\* the params get_auth_token builds
AuthTokenParams ==
    <<<<"method", "auth.gettoken">>, <<"api_key", api_key>>,
      <<"api_sig", _get_api_signature(<<<<"method", "auth.gettoken">>,
                                        <<"api_key", api_key>>>>)>>,
      <<"format", "json">>>>

\* the params get_session_from_token builds
SessionParams(token) ==
    <<<<"method", "auth.getsession">>, <<"token", token>>, <<"api_key", api_key>>,
      <<"api_sig", _get_api_signature(<<<<"method", "auth.getsession">>,
                                        <<"token", token>>,
                                        <<"api_key", api_key>>>>)>>,
      <<"format", "json">>>>

\* what session.get can do for a request of the authorization flow
AuthOutcomes == {"raise", "status", "ok"}

AuthResponse(kind, body) ==
    IF kind = "ok" THEN [kind |-> "ok", body |-> body]
    ELSE [kind |-> kind, body |-> "None"]

\* lastfm_session_key of a row that has none
NULL == "NULL"

\* the Last.fm account names users link to
LastfmNames == {"u", "v"}

\* CommandHandler.start_auth_flow and the second half of
\* CommandHandler.link_user: get_auth_token, then store_auth_token(sender, token)
start_auth_flow ==
    \E sender \in Users, kind \in AuthOutcomes :
        /\ issued < MaxTokens
        /\ LET r == Request(AuthTokenParams,
                            AuthResponse(kind, TokenNames[issued + 1]), FALSE, FALSE)
               got == r.ret # None
           IN  /\ _cache' = r.cache
               /\ lastfm_cache' = r.table
               /\ issued' = IF r.net = 1 /\ kind = "ok" THEN issued + 1 ELSE issued
               /\ auth_token' = IF got THEN Put(auth_token, sender, r.ret.body)
                                ELSE auth_token
               /\ auth_tokens' = IF got THEN Put(auth_tokens, sender, now)
                                 ELSE auth_tokens
               /\ last' = Trace("get_auth_token", r,
                                IF got THEN <<sender, r.ret.body>> ELSE <<sender>>)
        /\ UNCHANGED <<now, _cache_ttls, cache_db, stats_cache, user_mappings>>
        /\ UNCHANGED <<pageVars, stepVars, calls, paging>>

\* Database.set_lastfm_session_key(matrix_user_id, session_key): UPDATE of the
\* user's row, if there is one
set_lastfm_session_key(table, matrix_user_id, session_key) ==
    IF matrix_user_id \in DOMAIN table
    THEN [table EXCEPT ![matrix_user_id].lastfm_session_key = session_key]
    ELSE table

\* CommandHandler.complete_auth_flow: the stored token is exchanged for a
\* session key (get_session_from_token); the key is saved and, when that
\* succeeded, the token row deleted
complete_auth_flow ==
    \E sender \in DOMAIN auth_token, kind \in AuthOutcomes :
        LET r == Request(SessionParams(auth_token[sender]),
                         AuthResponse(kind, "session"), FALSE, FALSE)
            saved == r.ret # None /\ sender \in DOMAIN user_mappings
        IN  /\ _cache' = r.cache
            /\ lastfm_cache' = r.table
            /\ user_mappings' =
                   IF saved
                   THEN set_lastfm_session_key(user_mappings, sender,
                                               "key-of-" \o auth_token[sender])
                   ELSE user_mappings
            /\ auth_token' = IF saved THEN Drop(auth_token, sender) ELSE auth_token
            /\ auth_tokens' = IF saved THEN Drop(auth_tokens, sender) ELSE auth_tokens
            /\ last' = Trace("get_session_from_token", r, <<sender>>)
            /\ UNCHANGED <<now, _cache_ttls, cache_db, stats_cache, issued>>
            /\ UNCHANGED <<pageVars, stepVars, calls, paging>>

\* INSERT OR REPLACE INTO user_mappings (matrix_user_id, lastfm_username,
\* updated_at): matrix_user_id is the primary key and lastfm_username is
\* UNIQUE, so every row that has the one or the other is deleted before the
\* new row is inserted; the new row has no session key
InsertOrReplace(table, matrix_user_id, lastfm_username) ==
    LET kept == {x \in DOMAIN table :
                    /\ x # matrix_user_id
                    /\ table[x].lastfm_username # lastfm_username}
    IN  [x \in kept \cup {matrix_user_id} |->
            IF x = matrix_user_id
            THEN [lastfm_username |-> lastfm_username, lastfm_session_key |-> NULL]
            ELSE table[x]]

\* Database.link_user(matrix_user_id, lastfm_username)
link_user ==
    \E matrix_user_id \in Users, lastfm_username \in LastfmNames :
        /\ user_mappings' = InsertOrReplace(user_mappings, matrix_user_id,
                                            lastfm_username)
        /\ last' = [NoTrace("link_user") EXCEPT
                        !.params = <<<<"matrix_user_id", matrix_user_id>>,
                                     <<"lastfm_username", lastfm_username>>>>]
        /\ UNCHANGED <<now, _cache, _cache_ttls, cache_db, lastfm_cache>>
        /\ UNCHANGED <<pageVars, stepVars, houseVars, calls, issued, auth_token, paging>>

\* the client as the bot builds it: no database is attached to it
NextLink == Tick \/ start_auth_flow \/ complete_auth_flow \/ link_user

SpecLink == InitPagination /\ [][NextLink]_vars

\* C33: every call of get_auth_token obtains its token from a network
\* request of its own, so no two users hold the same auth token, and
\* get_session_from_token never returns a session key out of the response
\* cache.
C33_TokensNeverShared ==
    /\ \A x, y \in DOMAIN auth_token : x # y => auth_token[x] # auth_token[y]
    /\ last.op = "get_auth_token" => last.net = 1
    /\ (last.op = "get_session_from_token" /\ last.ret # None) => last.src = "network"

\* the user a call of Database.link_user is for
LinkedUser(l) == Get(l.params, "matrix_user_id")

\* C34: Database.link_user(X, name) changes only the row of user X: every
\* other Matrix user Y has the same Last.fm username and the same session key
\* before and after the call, also when name is already linked to Y.
C34_LinkChangesOnlyOwnRow ==
    [][last'.op = "link_user" =>
          \A y \in Users \ {LinkedUser(last')} :
              /\ y \in DOMAIN user_mappings <=> y \in DOMAIN user_mappings'
              /\ y \in DOMAIN user_mappings => user_mappings'[y] = user_mappings[y]]_vars

-----------------------------------------------------------------------------
(* Claims about what a reaction leaves alone *)

\* the message that keys, after the reaction just handled, the session that
\* message event_id keyed before it
KeyAfterReaction(event_id) ==
    IF event_id = lastR'.target /\ lastR'.sent # 0 THEN lastR'.sent ELSE event_id

\* C35: across any sequence of reactions a session's owner, total_pages, room
\* and content producer never change: whatever a reaction does, every session
\* is still registered, under its message or under the replacement, with the
\* user_id, total_pages, room_id and callback it had before.
C35_SessionIdentityKept ==
    [][lastR'.op = "handle_reaction" =>
          \A event_id \in DOMAIN paginations :
              LET before == paginations[event_id]
                  key    == KeyAfterReaction(event_id)
              IN  /\ key \in DOMAIN paginations'
                  /\ paginations'[key].user_id = before.user_id
                  /\ paginations'[key].total_pages = before.total_pages
                  /\ paginations'[key].room_id = before.room_id
                  /\ paginations'[key].callback = before.callback]_vars

\* a session has been rebound twice in a row and is registered under the
\* second replacement with the owner and the page count of the command
C35_Witness ==
    /\ lastR.op = "handle_reaction" /\ lastR.sent # 0
    /\ lastR.nexts >= 2
    /\ lastR.sent \in DOMAIN paginations
    /\ paginations[lastR.sent].user_id = lastR.sender
    /\ paginations[lastR.sent].total_pages > 2

\* C36: reactions sent by the bot itself never drive navigation: when one of
\* the control reactions the bot attached to a message is delivered back,
\* reaction_callback drops it before handle_reaction; no registry entry
\* changes and no message is deleted or sent.
C36_OwnReactionsIgnored ==
    [][\A i \in DOMAIN running' :
           running'[i].sender = BotUser =>
               /\ running'[i].ended = "ignored_own"
               /\ running'[i].done = <<>>
               /\ running'[i].sent = 0 /\ running'[i].redact = "none"
               /\ (i \notin DOMAIN running \/ running[i] # running'[i]) =>
                      /\ paginations' = paginations
                      /\ room' = room
                      /\ nextEvent' = nextEvent]_vars

\* the "next" control the bot attached to a message that keys a session with
\* a page to go to has been delivered back and dropped
C36_Witness ==
    \E i \in DOMAIN running :
        LET f == running[i]
        IN  /\ f.sender = BotUser /\ f.ended = "ignored_own"
            /\ f.key = NextKey
            /\ f.target \in DOMAIN paginations
            /\ paginations[f.target].current_page < paginations[f.target].total_pages
            /\ room[f.target].page = paginations[f.target].current_page

-----------------------------------------------------------------------------
(* Key derivation for values that contain the separators *)

\* the number of parameters of these mappings
MaxSepParams == 2

\* parameter names the key keeps
SepNames == {"limit", "method", "user"}

\* values: empty, plain, and two that contain the separators of the key
SepValues == {"", "v", "v|user=v", "v=v"}

\* the mappings of up to MaxSepParams of these parameters, in every insertion order
SepInputs ==
    UNION {{d \in [1..n -> SepNames \X SepValues] :
               \A i, j \in 1..n : i # j => d[i][1] # d[j][1]} : n \in 0..MaxSepParams}

\* _cache_key(params), called on its own for these mappings
Call_cache_key_separators ==
    \E params \in SepInputs :
        /\ last' = [NoTrace("_cache_key") EXCEPT
                        !.params = params, !.key = _cache_key(params)]
        /\ UNCHANGED <<now, _cache, _cache_ttls, cache_db, lastfm_cache>>
        /\ UNCHANGED <<pageVars, stepVars, houseVars, calls, linkVars, paging>>

NextSeparators == Call_cache_key_separators

SpecSeparators == InitPagination /\ [][NextSeparators]_vars

\* the pairs of a mapping that the key is built from
Kept(p) == {p[i] : i \in {j \in DOMAIN p : p[j][1] \notin SkippedFields}}

\* C37: _cache_key is injective on what it keeps: two mappings that differ in
\* the presence or the value of a parameter other than api_key and format
\* get different keys, also when values contain '|' or '='.
C37_KeyInjective ==
    last.op = "_cache_key" =>
        \A q \in SepInputs :
            Kept(q) # Kept(last.params) => _cache_key(q) # last.key

\* ---------------------------------------------------------------------------
\* get_all_top_artists, get_all_top_tracks, get_all_top_albums: the paging loop
\* ---------------------------------------------------------------------------

\* the largest page number, max_pages and totalPages that are told apart
MaxPage == 3

\* the page sizes a call is made with
PageSizes == {1, 2}

\* max_pages = None, total_pages = None
NoPages == -1

\* the three methods and the key of the response each one reads
TopKey ==
    [artists |-> "topartists", tracks |-> "toptracks", albums |-> "topalbums"]

\* the values of @attr.totalPages a response carries: none, a string of
\* digits (what Last.fm sends), a JSON number, a string that is no number
TotalPagesRaw ==
    {[t |-> "absent", n |-> 0], [t |-> "bad", n |-> 0]}
        \cup {[t |-> "str", n |-> k] : k \in 0..MaxPage}
        \cup {[t |-> "int", n |-> k] : k \in 0..1}

\* what one _request of the loop returns: None, a body without the key, or a
\* page: its items as a list of 0..page_size entries or as one single dict
PageResponses(page_size) ==
    {[kind |-> "failed", items |-> 0, single |-> FALSE,
      totalPages |-> [t |-> "absent", n |-> 0]],
     [kind |-> "nokey", items |-> 0, single |-> FALSE,
      totalPages |-> [t |-> "absent", n |-> 0]]}
        \cup {[kind |-> "page", items |-> i, single |-> FALSE, totalPages |-> r] :
                i \in 0..page_size, r \in TotalPagesRaw}
        \cup {[kind |-> "page", items |-> 1, single |-> TRUE, totalPages |-> r] :
                r \in TotalPagesRaw}

\* attr.get('totalPages') or attr.get('totalpages'), then int() with
\* TypeError and ValueError caught: the number, or None
ParseTotalPages(raw) ==
    LET truthy == CASE raw.t = "absent" -> FALSE
                    [] raw.t = "int" -> raw.n # 0
                    [] OTHER -> TRUE
    IN  IF ~truthy THEN NoPages
        ELSE IF raw.t = "bad" THEN NoPages
        ELSE raw.n

\* page += 1.  Page numbers above MaxPage are kept by their parity only: the
\* loop compares the page with max_pages and total_pages, which are at most
\* MaxPage, so every test gives the same answer for all of them.
NextPage(page) == IF page < MaxPage + 2 THEN page + 1 ELSE MaxPage + 1

\* the call: page = 1, total_pages = None, nothing requested yet
get_all_top ==
    /\ paging.pc \in {"idle", "returned"}
    /\ \E kind \in DOMAIN TopKey, page_size \in PageSizes,
          max_pages \in {NoPages} \cup 0..MaxPage :
            paging' = [pc |-> "loop", key |-> TopKey[kind], page |-> 1,
                       page_size |-> page_size, max_pages |-> max_pages,
                       total_pages |-> NoPages, asked |-> 0,
                       got |-> [kind |-> "none", artists |-> 0],
                       why |-> "none"]
    /\ UNCHANGED <<cacheVars, pageVars, stepVars, houseVars, calls, linkVars>>

\* one iteration of `while True`, with the _request it awaits
LoopIteration ==
    /\ paging.pc = "loop"
    /\ IF paging.max_pages # NoPages /\ paging.page > paging.max_pages
         THEN paging' = [paging EXCEPT !.pc = "returned", !.why = "max_pages"]
         ELSE \E data \in PageResponses(paging.page_size) :
                LET artists == IF data.single THEN 1 ELSE data.items
                    asked == [paging EXCEPT
                                !.asked = paging.page,
                                !.got = [kind |-> data.kind, artists |-> artists]]
                    total_pages ==
                        IF paging.total_pages = NoPages
                          THEN ParseTotalPages(data.totalPages)
                          ELSE paging.total_pages
                    told == [asked EXCEPT !.total_pages = total_pages]
                IN  IF data.kind # "page"
                      THEN paging' = [asked EXCEPT !.pc = "returned",
                                                   !.why = data.kind]
                    ELSE IF total_pages # NoPages /\ paging.page >= total_pages
                      THEN paging' = [told EXCEPT !.pc = "returned",
                                                  !.why = "totalPages"]
                    ELSE IF artists = 0 \/ artists < paging.page_size
                      THEN paging' = [told EXCEPT !.pc = "returned",
                                                  !.why = "short"]
                    ELSE paging' = [told EXCEPT !.page = NextPage(paging.page)]
    /\ UNCHANGED <<cacheVars, pageVars, stepVars, houseVars, calls, linkVars>>

NextPaging == get_all_top \/ LoopIteration

SpecPaging == InitPagination /\ [][NextPaging]_vars

\* each awaited _request of the loop comes back (the session's timeout)
SpecPagingFair == SpecPaging /\ WF_vars(LoopIteration)

\* ---------------------------------------------------------------------------
\* Claims about the paging loop
\* ---------------------------------------------------------------------------

\* a call of get_all_top_* is under way or has returned
Paged == paging.pc # "idle"

\* C38, first bound: a call made with max_pages issues at most max_pages
\* requests
C38_AtMostMaxPages ==
    (Paged /\ paging.max_pages # NoPages) => paging.asked <= paging.max_pages

\* C38, second bound: once a response has reported totalPages, the loop
\* requests no page beyond it
C38_NoPageBeyondTotal ==
    [][(paging.pc = "loop" /\ paging.total_pages # NoPages
            /\ paging'.pc # "idle" /\ paging'.asked # paging.asked)
        => paging'.asked <= paging.total_pages]_vars

\* C38, the stop: the loop goes on to the next page only after a full page
C38_StopsAtFirstBadPage ==
    (Paged /\ paging.pc = "loop" /\ paging.asked > 0)
        => /\ paging.got.kind = "page"
           /\ paging.got.artists > 0
           /\ paging.got.artists >= paging.page_size

\* C38: get_all_top_artists, get_all_top_tracks and get_all_top_albums
\* terminate for every sequence of responses: a call that entered its loop
\* returns
C38_PagingTerminates == (paging.pc = "loop") ~> (paging.pc = "returned")

\* the case the code does not end: no max_pages, no totalPages reported, and
\* full pages up to a page above every bound
C38_Witness ==
    /\ paging.pc = "loop"
    /\ paging.max_pages = NoPages
    /\ paging.total_pages = NoPages
    /\ paging.asked > MaxPage
    /\ paging.got.artists = paging.page_size

====
